---- MODULE Spec2Model ----
(***************************************************************************)
(* Model of the channel resolution and freshness-tracking engine:          *)
(*   agents/storage.py                 LocalFileStorage, StateManager      *)
(*   agents/youtube_channel_agent.py   YouTubeChannelAgent                 *)
(*   agents/protocols.py               AgentResponse                       *)
(*                                                                         *)
(* Python strings are sequences of one-character strings, so that the      *)
(* regular expressions, split() and strip() are computed on characters.    *)
(* The provider (YouTube Data API) and the file system are the             *)
(* environment: every outcome of a call to them is a nondeterministic      *)
(* choice.                                                                 *)
(***************************************************************************)
EXTENDS Integers, Sequences, FiniteSets, TLC

\* ------------------------------------------------------------------ bounds

\* Number of process() calls made on the engine instance.
MaxCalls == 2

\* Number of engine instances constructed, one after another, on the store.
MaxEngines == 2

\* ----------------------------------------------------------- Python values

\* Python's None where an Optional[str] is expected: no string of the model
\* equals it ("None" is not a character).
None == <<"None">>

\* Truthiness of an Optional[str]: None and "" are falsy.
Truthy(s) == s # None /\ s # <<>>

\* Optional values that are not strings: <<>> is None, <<x>> is x.
NoneOpt == <<>>

Some(x) == <<x>>

Min(S) == CHOOSE m \in S : \A n \in S : m <= n

Max(S) == CHOOSE m \in S : \A n \in S : n <= m

Rep(c, n) == [i \in 1..n |-> c]

\* dict with no key
EmptyMap == [k \in {} |-> None]

\* dict.get(k): None when the key is absent
Get(m, k) == IF k \in DOMAIN m THEN m[k] ELSE None

\* d[k] = v
Put(m, k, v) == [x \in (DOMAIN m) \cup {k} |-> IF x = k THEN v ELSE m[x]]

\* ------------------------------------------------------- characters, regex

\* The members of the class [a-zA-Z0-9_-] among the characters of the model.
WordChars == {"a", "b", "c", "e", "h", "n", "r", "s", "u", "x", "U", "C", "0", "1", "_", "-"}

\* What str.strip() removes.
Whitespace == {" "}

\* {22} of the channel-ID pattern
IdTailLen == 22

\* Positions where UC[a-zA-Z0-9_-]{22} matches.
IdMatches(url) ==
    {i \in 1..Len(url) :
        /\ i + 1 + IdTailLen <= Len(url)
        /\ url[i] = "U"
        /\ url[i + 1] = "C"
        /\ \A k \in 2..(1 + IdTailLen) : url[i + k] \in WordChars}

\* re.search(r'(UC[a-zA-Z0-9_-]{22})', url): the leftmost match, or None
extract_channel_id_from_url(url) ==
    IF IdMatches(url) = {}
    THEN None
    ELSE LET i == Min(IdMatches(url)) IN SubSeq(url, i, i + 1 + IdTailLen)

\* End of the greedy run [a-zA-Z0-9_-]+ that starts at position i.
RunEnd(url, i) ==
    Max({j \in i..Len(url) : \A k \in i..j : url[k] \in WordChars})

IsWordAt(url, i) == i <= Len(url) /\ url[i] \in WordChars

\* Positions where @([a-zA-Z0-9_-]+) matches.
AtMatches(url) == {i \in 1..Len(url) : url[i] = "@" /\ IsWordAt(url, i + 1)}

\* Where the group of /(?:c|user)/([a-zA-Z0-9_-]+) starts for a match at i; 0: no match at i.
PathGroupStart(url, i) ==
    IF url[i] # "/" THEN 0
    ELSE IF /\ i + 2 <= Len(url)
            /\ url[i + 1] = "c"
            /\ url[i + 2] = "/"
            /\ IsWordAt(url, i + 3)
         THEN i + 3
    ELSE IF /\ i + 5 <= Len(url)
            /\ SubSeq(url, i + 1, i + 4) = <<"u", "s", "e", "r">>
            /\ url[i + 5] = "/"
            /\ IsWordAt(url, i + 6)
         THEN i + 6
    ELSE 0

PathMatches(url) == {i \in 1..Len(url) : PathGroupStart(url, i) # 0}

\* _extract_channel_name_from_url: @name first, then /c/name or /user/name
extract_channel_name_from_url(url) ==
    IF AtMatches(url) # {}
    THEN LET i == Min(AtMatches(url)) IN SubSeq(url, i + 1, RunEnd(url, i + 1))
    ELSE IF PathMatches(url) # {}
    THEN LET g == PathGroupStart(url, Min(PathMatches(url))) IN SubSeq(url, g, RunEnd(url, g))
    ELSE None

\* str.split(sep) for a one-character separator
RECURSIVE split(_, _)
split(s, sep) ==
    IF \A i \in 1..Len(s) : s[i] # sep
    THEN <<s>>
    ELSE LET i == Min({k \in 1..Len(s) : s[k] = sep})
         IN  <<SubSeq(s, 1, i - 1)>> \o split(SubSeq(s, i + 1, Len(s)), sep)

\* str.strip()
strip(s) ==
    LET keep == {i \in 1..Len(s) : s[i] \notin Whitespace}
    IN  IF keep = {} THEN <<>> ELSE SubSeq(s, Min(keep), Max(keep))

\* sep.join(list)
RECURSIVE join(_, _)
join(list, sep) ==
    IF list = <<>> THEN <<>>
    ELSE IF Len(list) = 1 THEN list[1]
    ELSE list[1] \o sep \o join(Tail(list), sep)

\* ------------------------------------------------- references, provider data

\* A bare channel ID.
RefId == <<"U", "C">> \o Rep("a", IdTailLen)

\* A handle.
RefAt == <<"@", "h">>

\* A reference with neither a channel ID nor a name in it.
RefBad == <<"x">>

\* A handle URL path that also holds a channel ID (of the other channel).
RefBoth == <<"@", "h", "/">> \o <<"U", "C">> \o Rep("b", IdTailLen)

\* A /c/ path with a channel name.
RefPath == <<"/", "c", "/", "n">>

Refs == {RefId, RefAt, RefBad, RefBoth, RefPath}

\* The two searches on the references of the model, computed once.
IdInRef == [url \in Refs |-> extract_channel_id_from_url(url)]

NameInRef == [url \in Refs |-> extract_channel_name_from_url(url)]

id_in_url(url) == IF url \in Refs THEN IdInRef[url] ELSE extract_channel_id_from_url(url)

name_in_url(url) == IF url \in Refs THEN NameInRef[url] ELSE extract_channel_name_from_url(url)

ChA == <<"U", "C">> \o Rep("a", IdTailLen)

ChB == <<"U", "C">> \o Rep("b", IdTailLen)

\* The channel IDs the provider's search can return.
Channels == {ChA, ChB}

V1 == <<"v", "1">>

V2 == <<"v", "2">>

\* The video IDs the provider can report as a channel's latest upload.
Videos == {V1, V2}

\* What search().list(...).execute() can do: return a top match, return no
\* item, raise an Exception (HttpError, transport error), or raise something
\* that is no Exception (KeyboardInterrupt, SystemExit).
LookupOutcomes ==
    [k : {"ok"}, id : Channels] \cup [k : {"empty", "error", "interrupt"}, id : {None}]

\* What the two calls of _get_latest_video can do: channels().list and
\* playlistItems().list each return items, return none, raise an Exception
\* or raise a non-Exception; playlistItems().list is called only when
\* channels().list returned items ("skipped" otherwise).
Failures == {"empty", "error", "interrupt"}

FetchOutcomes ==
    [chan : {"items"}, pl : {"items"}, video_id : Videos]
        \cup [chan : {"items"}, pl : Failures, video_id : {None}]
        \cup [chan : Failures, pl : {"skipped"}, video_id : {None}]

\* ------------------------------------------------------------------ storage

EmptyDoc == [resolved |-> EmptyMap, last_seen |-> EmptyMap]

\* Parseable JSON of another shape. A JSON array in the place of a map is
\* written as the map with the one key NotAnObject, which no reference and no
\* channel ID equals; a document that is a JSON array as the document with
\* the one key "[]".
NotAnObject == <<"[", "]">>

ListValue == [k \in {NotAnObject} |-> None]

ListDoc == [k \in {"[]"} |-> EmptyMap]

\* isinstance(m, dict) for what is in the place of a map / of the document
IsDict(m) == NotAnObject \notin DOMAIN m

IsDictDoc(st) == "[]" \notin DOMAIN st

\* the members are not written
json_dumps_KeysOnly(doc) == [keys |-> DOMAIN doc, members |-> {}]

\* json.dump / json.dumps of the document: the text of a JSON object, here its
\* top-level keys and, for every key of a map, the member "key": "value".
json_dumps(doc) ==
    [keys    |-> DOMAIN doc,
     members |-> UNION {{<<sec, k, doc[sec][k]>> : k \in DOMAIN doc[sec]} : sec \in DOMAIN doc}]

\* json.load / json.loads of such a text: every top-level key with its map.
json_loads(text) ==
    [sec \in text.keys |->
        [k \in {m[2] : m \in {x \in text.members : x[1] = sec}} |->
            (CHOOSE m \in text.members : m[1] = sec /\ m[2] = k)[3]]]

NoContent == json_dumps(EmptyMap)

\* The backing object, a local file or a blob: absent, one that cannot be
\* read, one holding text the JSON parser rejects, or one holding a document.
Absent == [backend |-> "local", kind |-> "absent", text |-> NoContent]

Corrupt == [backend |-> "local", kind |-> "corrupt", text |-> NoContent]

Stored(doc) == [backend |-> "local", kind |-> "doc", text |-> json_dumps(doc)]

Unreadable == [backend |-> "local", kind |-> "unreadable", text |-> NoContent]

AsBlob(file) == [file EXCEPT !.backend = "blob"]

\* What the body of the try statement of load() does on the object: it
\* returns the parsed text, falls through (LocalFileStorage: exists() is
\* false), or raises.
read_object(file) ==
    IF file.kind = "doc" THEN [exc |-> "none", returned |-> TRUE, doc |-> json_loads(file.text)]
    ELSE IF file.kind = "corrupt" THEN [exc |-> "JSONDecodeError", returned |-> FALSE, doc |-> EmptyDoc]
    ELSE IF file.kind = "unreadable" THEN [exc |-> "OSError", returned |-> FALSE, doc |-> EmptyDoc]
    ELSE IF file.backend = "blob" THEN [exc |-> "ResourceNotFoundError", returned |-> FALSE, doc |-> EmptyDoc]
    ELSE [exc |-> "none", returned |-> FALSE, doc |-> EmptyDoc]

\* only the missing object is handled
LoadCatches_NotFoundOnly(backend) == {"ResourceNotFoundError"}

\* The exceptions the except clauses of load() catch: "except Exception" in
\* LocalFileStorage, "except ResourceNotFoundError" and "except Exception" in
\* BlobStorage.
LoadCatches(backend) == {"JSONDecodeError", "OSError", "ResourceNotFoundError"}

\* load() given what its try body did: the parsed document, or the fresh
\* document when the body fell through or raised what is caught.
load_result(backend, r) ==
    IF r.returned THEN [raised |-> FALSE, doc |-> r.doc]
    ELSE IF r.exc = "none" \/ r.exc \in LoadCatches(backend) THEN [raised |-> FALSE, doc |-> EmptyDoc]
    ELSE [raised |-> TRUE, doc |-> EmptyDoc]

\* LocalFileStorage.load / BlobStorage.load
load(file) == load_result(file.backend, read_object(file))

\* StateManager.load: _state is what the storage returned.
storage_load(file) == load(file).doc

\* the document is merged into what the object holds
storage_save_merging(file, doc) ==
    [file EXCEPT !.kind = "doc",
                 !.text = [keys    |-> json_dumps(doc).keys \cup file.text.keys,
                           members |-> json_dumps(doc).members \cup
                                       {m \in file.text.members :
                                           \A n \in json_dumps(doc).members :
                                               <<n[1], n[2]>> # <<m[1], m[2]>>}]]

\* save() when nothing raises: the object holds the text of the document.
storage_save_ok(file, doc) == [file EXCEPT !.kind = "doc", !.text = json_dumps(doc)]

\* save() when it raises. LocalFileStorage: the file is untouched (mkdir or
\* open failed) or truncated (the write failed after open(..., 'w')), and the
\* exception is re-raised. BlobStorage: the upload failed, the blob is untouched.
storage_save_raises(file, doc) ==
    IF file.backend = "local" THEN {file, [file EXCEPT !.kind = "corrupt", !.text = NoContent]}
    ELSE {file}

\* ------------------------------------------------------------ StateManager

\* self._state.get(sec, {}).get(key) and self._state.setdefault(sec, {})[key]
\* raise (AttributeError, TypeError) when _state is no dict or holds no dict
\* under sec.
accessor_raises(st, sec) == ~IsDictDoc(st) \/ (sec \in DOMAIN st /\ ~IsDict(st[sec]))

\* str(e) of the AttributeError
NoGetText == "'list' object has no attribute 'get'"

\* the cache answers with an entry of another reference
get_resolved_AnyKey(st, identifier) ==
    IF identifier \in DOMAIN st.resolved THEN st.resolved[identifier]
    ELSE IF DOMAIN st.resolved # {} THEN st.resolved[CHOOSE k \in DOMAIN st.resolved : TRUE]
    ELSE None

\* the cache never hits
get_resolved_Miss(st, identifier) == None

get_resolved(st, identifier) ==
    Get(IF "resolved" \in DOMAIN st THEN st.resolved ELSE EmptyMap, identifier)

\* the map is replaced by the new entry
set_resolved_Replaces(st, identifier, channel_id) ==
    [k \in (DOMAIN st) \cup {"resolved"} |->
        IF k = "resolved" THEN Put(EmptyMap, identifier, channel_id) ELSE st[k]]

set_resolved(st, identifier, channel_id) ==
    LET m == IF "resolved" \in DOMAIN st THEN st.resolved ELSE EmptyMap
    IN  [k \in (DOMAIN st) \cup {"resolved"} |->
            IF k = "resolved" THEN Put(m, identifier, channel_id) ELSE st[k]]

get_last_seen(st, channel_id) ==
    Get(IF "last_seen" \in DOMAIN st THEN st.last_seen ELSE EmptyMap, channel_id)

\* the first video seen for a channel is kept
set_last_seen_KeepFirst(st, channel_id, video_id) ==
    IF "last_seen" \in DOMAIN st /\ channel_id \in DOMAIN st.last_seen
    THEN st
    ELSE [k \in (DOMAIN st) \cup {"last_seen"} |->
             IF k = "last_seen"
             THEN Put(IF "last_seen" \in DOMAIN st THEN st.last_seen ELSE EmptyMap,
                      channel_id, video_id)
             ELSE st[k]]

\* the write is lost
set_last_seen_Dropped(st, channel_id, video_id) == st

set_last_seen(st, channel_id, video_id) ==
    LET m == IF "last_seen" \in DOMAIN st THEN st.last_seen ELSE EmptyMap
    IN  [k \in (DOMAIN st) \cup {"last_seen"} |->
            IF k = "last_seen" THEN Put(m, channel_id, video_id) ELSE st[k]]

\* ---------------------------------------------------------------- resolver

\* an Exception of the search leaves the resolver
resolve_channel_name_to_id_Propagates(channel_name, lk) ==
    [raised |-> lk.k \in {"interrupt", "error"},
     id     |-> IF lk.k = "ok" THEN lk.id ELSE None]

\* _resolve_channel_name_to_id: every Exception is caught and gives None; a
\* non-Exception passes through both except clauses.
resolve_channel_name_to_id(channel_name, lk) ==
    [raised |-> lk.k = "interrupt",
     id     |-> IF lk.k = "ok" THEN lk.id ELSE None]

\* the ID is returned without being cached
cache_result_Skipped(st, channel_url, channel_id, lookup) ==
    [raised |-> FALSE, id |-> channel_id, st |-> st, lookup |-> lookup]

\* the outcome is cached whatever it is
cache_result_Always(st, channel_url, channel_id, lookup) ==
    [raised |-> FALSE,
     id     |-> channel_id,
     st     |-> set_resolved(st, channel_url, channel_id),
     lookup |-> lookup]

\* _resolve_channel_id, "Cache the result": a truthy ID is cached under the
\* reference as given. lookup: whether the external name search was issued.
cache_result(st, channel_url, channel_id, lookup) ==
    [raised |-> FALSE,
     id     |-> channel_id,
     st     |-> IF Truthy(channel_id) THEN set_resolved(st, channel_url, channel_id) ELSE st,
     lookup |-> lookup]

\* _resolve_channel_id, "Try to resolve via API using channel name"
resolve_by_name(st, channel_url, channel_name, lk) ==
    IF ~Truthy(channel_name)
    THEN cache_result(st, channel_url, None, FALSE)
    ELSE IF resolve_channel_name_to_id(channel_name, lk).raised
    THEN [raised |-> TRUE, id |-> None, st |-> st, lookup |-> TRUE]
    ELSE cache_result(st, channel_url, resolve_channel_name_to_id(channel_name, lk).id, TRUE)

\* the name search is tried before the ID pattern
resolve_name_first(st, channel_url, channel_id, lk) ==
    IF Truthy(name_in_url(channel_url))
    THEN resolve_by_name(st, channel_url, name_in_url(channel_url), lk)
    ELSE cache_result(st, channel_url, channel_id, FALSE)

\* _resolve_channel_id, "Extract from URL patterns"
resolve_by_pattern(st, channel_url, channel_id, lk) ==
    IF Truthy(channel_id)
    THEN cache_result(st, channel_url, channel_id, FALSE)
    ELSE resolve_by_name(st, channel_url, name_in_url(channel_url), lk)

\* _resolve_channel_id, "Check cache first"
resolve_by_cache(st, channel_url, cached_id, lk) ==
    IF Truthy(cached_id)
    THEN [raised |-> FALSE, id |-> cached_id, st |-> st, lookup |-> FALSE]
    ELSE resolve_by_pattern(st, channel_url, id_in_url(channel_url), lk)

\* _resolve_channel_id: cache, then the ID pattern, then the name search
resolve_channel_id(st, channel_url, lk) ==
    resolve_by_cache(st, channel_url, get_resolved(st, channel_url), lk)

\* ------------------------------------------------------------- video fetch

NoInfo == [channel_id |-> None, video_id |-> None]

\* _get_latest_video: "video" with the head of the uploads playlist, "none"
\* when a list is empty or an Exception was caught, "raise" when a call
\* raised a non-Exception.
get_latest_video(channel_id, fo) ==
    IF fo.chan = "interrupt" \/ (fo.chan = "items" /\ fo.pl = "interrupt")
    THEN [k |-> "raise", info |-> NoInfo]
    ELSE IF fo.chan = "items" /\ fo.pl = "items"
    THEN [k |-> "video", info |-> [channel_id |-> channel_id, video_id |-> fo.video_id]]
    ELSE [k |-> "none", info |-> NoInfo]

\* ------------------------------------------------------------- input_data

\* A value of the input dict: a missing key, a str, a list, or anything else.
Missing == [t |-> "missing"]

StrVal(s) == [t |-> "str", v |-> s]

ListVal(l) == [t |-> "list", v |-> l]

OtherVal == [t |-> "other"]

\* input_data is None
InputNone == [t |-> "None", channels |-> Missing, channel_urls |-> Missing]

\* input_data is a dict
InputDict(c, u) == [t |-> "dict", channels |-> c, channel_urls |-> u]

\* the comprehension without its "if url.strip()"
Stripped_KeepBlank(items) ==
    LET strs == SelectSeq(items, LAMBDA x : x.t = "str")
    IN  [i \in 1..Len(strs) |-> strip(strs[i].v)]

\* the list comprehensions of _extract_channels: strip every str, keep the non-empty
StrippedNonEmpty(items) ==
    LET strs     == SelectSeq(items, LAMBDA x : x.t = "str")
        stripped == [i \in 1..Len(strs) |-> strip(strs[i].v)]
    IN  SelectSeq(stripped, LAMBDA x : x # <<>>)

\* _extract_channels
extract_channels(d) ==
    IF d.t = "None" \/ (d.channels.t = "missing" /\ d.channel_urls.t = "missing")
    THEN <<>>
    ELSE IF d.channels.t = "str"
    THEN LET parts == split(d.channels.v, ",")
         IN  StrippedNonEmpty([i \in 1..Len(parts) |-> StrVal(parts[i])])
    ELSE IF d.channel_urls.t = "list"
    THEN StrippedNonEmpty(d.channel_urls.v)
    ELSE <<>>

\* ---------------------------------------------------------- AgentResponse

\* None where a message or an error type is expected
NoText == "None"

NoResponse == [status |-> "None", error |-> NoText, error_type |-> NoText, data |-> NoneOpt]

ValidationFailed ==
    [status |-> "failed", error |-> "No valid channels provided",
     error_type |-> "validation_error", data |-> NoneOpt]

\* the outer except clause of process(): str(e), no data
UnexpectedFailed(text) ==
    [status |-> "failed", error |-> text, error_type |-> "unexpected_error", data |-> NoneOpt]

\* any error fails the batch
BatchStatus_AnyErrorFails(res, errs) == IF errs # <<>> THEN "failed" ELSE "success"

\* "Determine response status"
BatchStatus(res, errs) ==
    IF res = <<>> /\ errs # <<>> THEN "failed"
    ELSE IF res # <<>> /\ errs # <<>> THEN "partial"
    ELSE "success"

\* the response of process() after a save() that returned
BatchResponse(chans, res, new, errs) ==
    IF BatchStatus(res, errs) = "failed"
    THEN [status |-> "failed", error |-> "Failed to process any channels",
          error_type |-> "processing_error", data |-> Some([errors |-> errs])]
    ELSE [status |-> BatchStatus(res, errs), error |-> NoText, error_type |-> NoText,
          data |-> Some([videos              |-> res,
                         new_videos          |-> new,
                         errors              |-> IF errs # <<>> THEN Some(errs) ELSE NoneOpt,
                         total_channels      |-> Len(chans),
                         successful_channels |-> Len(res)])]

\* new only on first observation
IsNew_OnlyFirst(last_seen, video_id) == last_seen = None

\* "Check if this is a new video"
IsNew(last_seen, video_id) == last_seen # video_id

\* -------------------------------------------------------------------- state

VARIABLES
    store,        \* the backing file of LocalFileStorage
    state,        \* StateManager._state of the engine instance
    pc,           \* where process() is: "idle", "loop", "returned", "aborted"
    input_data,   \* the argument of the current process() call
    channels,     \* process(): channels
    idx,          \* number of references of channels the for loop has taken
    results,      \* process(): results
    new_videos,   \* process(): new_videos
    errors,       \* process(): errors
    response,     \* what the last process() call returned
    last,         \* the last loop iteration of the current call: its locals, and
                  \* whether it searched by name, whether a provider call raised
    before,       \* history: _state when the last iteration (or the call) began
    calls,        \* history: process() calls started on this instance
    saves,        \* history: how each StateManager.save() of the current call ended
    lastFetch,    \* history: channel ID -> the most recent successful fetch
    resolutions,  \* history: reference -> its successful resolutions
    engines,      \* history: engine instances constructed so far
    stop,         \* history: how the previous engine instance stopped
    peer,         \* a second engine instance on the same store, between its calls
    threads,      \* process() calls running concurrently on the engine instance
    failed,       \* history: the last save() of the instance that raised
    agents,       \* tools.py: _agents["youtube_channel"], None or the instance
    toolLog       \* history: the calls of the channel tools, the last one last

vars == <<store, state, pc, input_data, channels, idx, results, new_videos, errors,
          response, last, before, calls, saves, lastFetch, resolutions, engines, stop,
          peer, threads, failed, agents, toolLog>>

\* What a process() call leaves alone: the other engine instances, and the
\* history of failed saves where it is not followed, the tools of the server.
outside == <<engines, stop, peer, threads, failed, agents, toolLog>>

frame == <<channels, idx, results, new_videos, errors, last>>

\* No successful fetch yet.
NoFetch == [video_id |-> None, call |-> 0]

NoStep ==
    [outcome |-> "none", channel_url |-> None, channel_id |-> None, video_id |-> None,
     last_seen |-> None, is_new |-> FALSE, lookup |-> FALSE, provider_error |-> FALSE,
     provider_interrupt |-> FALSE, prev_fetch |-> NoFetch]

\* ------------------------------------------------------------------- inputs

\* The reference lists a caller monitors: single references, pairs (two
\* references of one channel, a duplicate), and three of which the second
\* fails.
Batches ==
    {<<RefAt>>, <<RefId>>, <<RefBad>>,
     <<RefId, RefAt>>,
     <<RefId, RefBad, RefAt>>, <<RefBoth>>, <<RefPath>>, <<RefAt, RefAt>>}

\* A caller's reference list as the comma-separated string of the "channels" key.
ChannelsInput(list) == InputDict(StrVal(join(list, <<",", " ">>)), Missing)

\* Inputs with no valid reference: None, {}, a blank string, blank entries,
\* a non-str under "channels", an empty list, a list of blank or non-str entries.
InvalidInputs ==
    {InputNone,
     InputDict(Missing, Missing),
     InputDict(StrVal(<<>>), Missing),
     InputDict(StrVal(<<" ", ",", " ">>), Missing),
     InputDict(OtherVal, Missing),
     InputDict(Missing, ListVal(<<>>)),
     InputDict(OtherVal, ListVal(<<StrVal(<<" ">>), OtherVal>>))}

\* Inputs in the list form of the "channel_urls" key.
ListInputs ==
    {InputDict(Missing, ListVal(<<StrVal(<<" ">> \o RefAt), OtherVal, StrVal(RefId)>>)),
     InputDict(OtherVal, ListVal(<<StrVal(RefBad \o <<" ">>)>>))}

Inputs == {ChannelsInput(l) : l \in Batches} \cup ListInputs \cup InvalidInputs

\* _extract_channels on every input, computed once.
ExtractedOf == [d \in Inputs |-> extract_channels(d)]

\* --------------------------------------------------------------- process()

\* The second instance: its name, its _state, whether its last call saved.
\* Instance "A" is the one whose calls the other variables describe.
NoPeer == [name |-> "B", doc |-> EmptyDoc, saved |-> FALSE]

\* The threads that call process() on one instance.
Threads == {"t1", "t2"}

\* The locals of a thread's process() call: pc is "idle", "loop" (at the
\* head of the for loop), "read" (is_new is computed, line 87 is done),
\* "returned" or "aborted"; pending holds the locals of the iteration under
\* way; log is the history of the iterations that appended a result: the
\* last_seen they read and the last_seen the map held when they got to line 90.
IdleThread ==
    [pc |-> "idle", channels |-> <<>>, idx |-> 0, results |-> <<>>, new_videos |-> <<>>,
     errors |-> <<>>, pending |-> NoStep, response |-> NoResponse, log |-> <<>>]

\* There was no previous instance.
NoStop ==
    [unflushed |-> EmptyMap, pc |-> "idle", calls |-> 0, saved |-> FALSE, doc |-> EmptyDoc,
     new_videos |-> <<>>]

\* No save() of the instance has raised.
NoFailure == [call |-> 0, doc |-> EmptyDoc]

\* _agents["youtube_channel"] = None: the slot holds no instance
NoAgent == 0

\* No tool of the server was called: the instance, if there is one, was
\* constructed by its caller and is not in the slot.
NoTools == agents = NoAgent /\ toolLog = <<>>

\* YouTubeChannelAgent(...) on the backing object `file`: the state manager
\* loads the document; no process() call has been made.
Constructed(file) ==
    /\ state = storage_load(file)
    /\ pc = IF load(file).raised THEN "init_raised" ELSE "idle"
    /\ input_data = InputNone
    /\ channels = <<>>
    /\ idx = 0
    /\ results = <<>>
    /\ new_videos = <<>>
    /\ errors = <<>>
    /\ response = NoResponse
    /\ last = NoStep
    /\ before = state
    /\ saves = <<>>

\* The first engine instance, on a state file that does not exist yet.
Init ==
    /\ store = Absent
    /\ Constructed(store)
    /\ calls = 0
    /\ lastFetch = EmptyMap
    /\ resolutions = EmptyMap
    /\ engines = 1
    /\ stop = NoStop
    /\ peer = NoPeer
    /\ threads = [t \in Threads |-> IdleThread]
    /\ failed = NoFailure
    /\ NoTools

\* A caller may call process() when no call is running.
CanCall == pc \in {"idle", "returned", "aborted"} /\ calls < MaxCalls

\* process() on an input with no valid channel: the validation error.
ProcessInvalid(d) ==
    /\ CanCall
    /\ ExtractedOf[d] = <<>>
    /\ input_data' = d
    /\ channels' = <<>>
    /\ idx' = 0
    /\ results' = <<>>
    /\ new_videos' = <<>>
    /\ errors' = <<>>
    /\ last' = NoStep
    /\ response' = ValidationFailed
    /\ pc' = "returned"
    /\ calls' = calls + 1
    /\ before' = state
    /\ saves' = <<>>
    /\ UNCHANGED <<store, state, lastFetch, resolutions>>
    /\ UNCHANGED outside

\* process() up to the for loop.
ProcessBegin(d) ==
    /\ CanCall
    /\ ExtractedOf[d] # <<>>
    /\ input_data' = d
    /\ channels' = ExtractedOf[d]
    /\ idx' = 0
    /\ results' = <<>>
    /\ new_videos' = <<>>
    /\ errors' = <<>>
    /\ last' = NoStep
    /\ response' = NoResponse
    /\ pc' = "loop"
    /\ calls' = calls + 1
    /\ before' = state
    /\ saves' = <<>>
    /\ UNCHANGED <<store, state, lastFetch, resolutions>>
    /\ UNCHANGED outside

\* How an iteration ended, with its locals: r is what _resolve_channel_id
\* returned; provider_error: a provider call of the iteration raised an Exception.
Ended(outcome, r, channel_url, provider_error) ==
    [outcome |-> outcome, st |-> r.st, channel_url |-> channel_url, channel_id |-> r.id,
     video_id |-> None, last_seen |-> None, is_new |-> FALSE, lookup |-> r.lookup,
     provider_error |-> provider_error]

\* last_seen is not written inside the loop
classify_Deferred(r, channel_url, video_id, seen, is_new, provider_error) ==
    [outcome |-> "video", st |-> r.st,
     channel_url |-> channel_url, channel_id |-> r.id, video_id |-> video_id,
     last_seen |-> seen, is_new |-> is_new, lookup |-> r.lookup,
     provider_error |-> provider_error]

\* "Check if this is a new video", "Update state"
classify(r, channel_url, video_id, seen, is_new, provider_error) ==
    [outcome |-> "video",
     st |-> IF is_new THEN set_last_seen(r.st, r.id, video_id) ELSE r.st,
     channel_url |-> channel_url, channel_id |-> r.id, video_id |-> video_id,
     last_seen |-> seen, is_new |-> is_new, lookup |-> r.lookup,
     provider_error |-> provider_error]

\* an Exception of the provider escapes the iteration and ends the call
after_fetch_ErrorEscapes(r, channel_url, f, provider_error) ==
    IF f.k = "raise" \/ (f.k = "none" /\ provider_error)
    THEN Ended("interrupt", r, channel_url, provider_error)
    ELSE IF f.k = "none" THEN Ended("no_video", r, channel_url, provider_error)
    ELSE IF accessor_raises(r.st, "last_seen")
    THEN Ended("exception", r, channel_url, provider_error)
    ELSE classify(r, channel_url, f.info.video_id, get_last_seen(r.st, r.id),
                  IsNew(get_last_seen(r.st, r.id), f.info.video_id), provider_error)

\* a channel without a video loses its last_seen
after_fetch_ForgetsOnNone(r, channel_url, f, provider_error) ==
    IF f.k = "raise" THEN Ended("interrupt", r, channel_url, provider_error)
    ELSE IF f.k = "none"
    THEN Ended("no_video", [r EXCEPT !.st = set_last_seen(r.st, r.id, None)], channel_url,
               provider_error)
    ELSE IF accessor_raises(r.st, "last_seen")
    THEN Ended("exception", r, channel_url, provider_error)
    ELSE classify(r, channel_url, f.info.video_id, get_last_seen(r.st, r.id),
                  IsNew(get_last_seen(r.st, r.id), f.info.video_id), provider_error)

\* "Get latest video": f is what _get_latest_video returned; get_last_seen
\* raises when last_seen is no dict
after_fetch(r, channel_url, f, provider_error) ==
    IF f.k = "raise" THEN Ended("interrupt", r, channel_url, provider_error)
    ELSE IF f.k = "none" THEN Ended("no_video", r, channel_url, provider_error)
    ELSE IF accessor_raises(r.st, "last_seen")
    THEN Ended("exception", r, channel_url, provider_error)
    ELSE classify(r, channel_url, f.info.video_id, get_last_seen(r.st, r.id),
                  IsNew(get_last_seen(r.st, r.id), f.info.video_id), provider_error)

\* the body of the for loop after _resolve_channel_id returned r or raised
after_resolve(r, channel_url, lk, fo) ==
    IF r.raised THEN Ended("interrupt", r, channel_url, FALSE)
    ELSE IF ~Truthy(r.id) THEN Ended("unresolved", r, channel_url, r.lookup /\ lk.k = "error")
    ELSE after_fetch(r, channel_url, get_latest_video(r.id, fo),
                     (r.lookup /\ lk.k = "error") \/ "error" \in {fo.chan, fo.pl})

\* _resolve_channel_id raised at get_resolved: nothing was resolved
NotResolved(st) == [raised |-> FALSE, id |-> None, st |-> st, lookup |-> FALSE]

\* One iteration of the for loop on channel_url, the provider answering lk to
\* the name search and fo to the two list calls. get_resolved raises when
\* the document or its resolved member is no dict.
Iteration(st, channel_url, lk, fo) ==
    IF accessor_raises(st, "resolved")
    THEN Ended("exception", NotResolved(st), channel_url, FALSE)
    ELSE after_resolve(resolve_channel_id(st, channel_url, lk), channel_url, lk, fo)

\* The iterations on channel_url the provider's answers allow.
Iterations(st, channel_url) ==
    {Iteration(st, channel_url, lk, fo) : lk \in LookupOutcomes, fo \in FetchOutcomes}

\* The locals an iteration leaves behind, with what the provider did in it
\* and the channel's most recent successful fetch before it.
Locals(it, fetched) ==
    [outcome |-> it.outcome, channel_url |-> it.channel_url, channel_id |-> it.channel_id,
     video_id |-> it.video_id, last_seen |-> it.last_seen, is_new |-> it.is_new,
     lookup |-> it.lookup, provider_error |-> it.provider_error,
     provider_interrupt |-> it.outcome = "interrupt",
     prev_fetch |-> IF it.channel_id \in DOMAIN fetched THEN fetched[it.channel_id]
                    ELSE NoFetch]

\* history of the successful resolutions of a reference: the ID the first one
\* returned, whether that one searched by name, and the name searches issued
\* for the reference from that resolution on.
Resolved(h, it) ==
    LET url == it.channel_url
        one == IF it.lookup THEN 1 ELSE 0
    IN  IF url \in DOMAIN h
        THEN Put(h, url, [h[url] EXCEPT !.lk = @ + one])
        ELSE IF it.outcome # "unresolved" /\ Truthy(it.channel_id)
        THEN Put(h, url, [id |-> it.channel_id, by_lookup |-> it.lookup, lk |-> one])
        ELSE h

InLoop == pc = "loop" /\ idx < Len(channels)

\* the list is walked from its end
channel_url_Reversed == channels[Len(channels) - idx]

\* "for channel_url in channels": the reference the loop takes next
channel_url == channels[idx + 1]

\* An iteration that ends as `outcome` appends an error entry with `text`, and
\* the loop goes on at reference number next_idx + 1.
RecordError(outcome, text, next_idx) ==
    /\ InLoop
    /\ \E it \in Iterations(state, channel_url) :
            /\ it.outcome = outcome
            /\ state' = it.st
            /\ errors' = Append(errors, [channel |-> it.channel_url, error |-> text])
            /\ last' = Locals(it, lastFetch)
            /\ before' = state
            /\ resolutions' = Resolved(resolutions, it)
    /\ idx' = next_idx
    /\ UNCHANGED <<store, pc, input_data, channels, results, new_videos, response,
                   calls, saves, lastFetch>>
    /\ UNCHANGED outside

\* a break in place of the continue
ChannelUnresolved_Break ==
    RecordError("unresolved", "Could not resolve channel ID", Len(channels))

\* The iteration ends with "Could not resolve channel ID" and continue.
ChannelUnresolved ==
    RecordError("unresolved", "Could not resolve channel ID", idx + 1)

\* The iteration ends with "No videos found" and continue.
ChannelNoVideo ==
    RecordError("no_video", "No videos found", idx + 1)

\* new_videos takes the video of every result
ChannelVideo_AppendsAlways ==
    /\ InLoop
    /\ \E it \in Iterations(state, channel_url) :
        LET info == [channel_id |-> it.channel_id, video_id |-> it.video_id]
        IN  /\ it.outcome = "video"
            /\ state' = it.st
            /\ new_videos' = Append(new_videos, info)
            /\ results' = Append(results, [channel_id  |-> it.channel_id,
                                           video_id    |-> it.video_id,
                                           is_new      |-> it.is_new,
                                           channel_url |-> it.channel_url])
            /\ last' = Locals(it, lastFetch)
            /\ before' = state
            /\ resolutions' = Resolved(resolutions, it)
            /\ lastFetch' = Put(lastFetch, it.channel_id,
                                [video_id |-> it.video_id, call |-> calls])
    /\ idx' = idx + 1
    /\ UNCHANGED <<store, pc, input_data, channels, errors, response, calls, saves>>
    /\ UNCHANGED outside

\* set_last_seen writes the document through to the store
ChannelVideo_WriteThrough ==
    /\ InLoop
    /\ \E it \in Iterations(state, channel_url) :
        LET info == [channel_id |-> it.channel_id, video_id |-> it.video_id]
        IN  /\ it.outcome = "video"
            /\ state' = it.st
            /\ store' = IF it.is_new THEN storage_save_ok(store, it.st) ELSE store
            /\ new_videos' = IF it.is_new THEN Append(new_videos, info) ELSE new_videos
            /\ results' = Append(results, [channel_id  |-> it.channel_id,
                                           video_id    |-> it.video_id,
                                           is_new      |-> it.is_new,
                                           channel_url |-> it.channel_url])
            /\ last' = Locals(it, lastFetch)
            /\ before' = state
            /\ resolutions' = Resolved(resolutions, it)
            /\ lastFetch' = Put(lastFetch, it.channel_id,
                                [video_id |-> it.video_id, call |-> calls])
    /\ idx' = idx + 1
    /\ UNCHANGED <<pc, input_data, channels, errors, response, calls, saves>>
    /\ UNCHANGED outside

\* The iteration classifies the channel's latest video and appends a result.
ChannelVideo ==
    /\ InLoop
    /\ \E it \in Iterations(state, channel_url) :
        LET info == [channel_id |-> it.channel_id, video_id |-> it.video_id]
        IN  /\ it.outcome = "video"
            /\ state' = it.st
            /\ new_videos' = IF it.is_new THEN Append(new_videos, info) ELSE new_videos
            /\ results' = Append(results, [channel_id  |-> it.channel_id,
                                           video_id    |-> it.video_id,
                                           is_new      |-> it.is_new,
                                           channel_url |-> it.channel_url])
            /\ last' = Locals(it, lastFetch)
            /\ before' = state
            /\ resolutions' = Resolved(resolutions, it)
            /\ lastFetch' = Put(lastFetch, it.channel_id,
                                [video_id |-> it.video_id, call |-> calls])
    /\ idx' = idx + 1
    /\ UNCHANGED <<store, pc, input_data, channels, errors, response, calls, saves>>
    /\ UNCHANGED outside

\* An accessor of the state manager raises in the iteration: the except
\* clause of the loop body appends str(e) for the reference, the loop goes on.
ChannelException ==
    RecordError("exception", NoGetText, idx + 1)

\* a bare except clause around the loop body
ChannelInterrupted_Swallowed ==
    RecordError("interrupt", "interrupted", idx + 1)

\* A provider call of the iteration raises a non-Exception: neither
\* "except Exception" clause of process() catches it, the call ends there.
ChannelInterrupted ==
    /\ InLoop
    /\ \E it \in Iterations(state, channel_url) :
            /\ it.outcome = "interrupt"
            /\ state' = it.st
            /\ last' = Locals(it, lastFetch)
            /\ before' = state
            /\ resolutions' = Resolved(resolutions, it)
    /\ pc' = "aborted"
    /\ UNCHANGED <<store, input_data, channels, idx, results, new_videos, errors,
                   response, calls, saves, lastFetch>>
    /\ UNCHANGED outside

\* the loop stops one reference early
LoopDone_Early == pc = "loop" /\ idx >= Len(channels) - 1

\* The for loop is over.
LoopDone == pc = "loop" /\ idx = Len(channels)

\* save() returns: the response is built from the three lists.
SaveReturns ==
    /\ LoopDone
    /\ store' = storage_save_ok(store, state)
    /\ saves' = Append(saves, "returned")
    /\ response' = BatchResponse(channels, results, new_videos, errors)
    /\ pc' = "returned"
    /\ UNCHANGED <<state, input_data, frame, before, calls, lastFetch, resolutions>>
    /\ UNCHANGED outside

\* save() raises: the outer except clause returns the failure.
SaveRaises ==
    /\ LoopDone
    /\ store' \in storage_save_raises(store, state)
    /\ saves' = Append(saves, "raised")
    /\ response' = UnexpectedFailed("save failed")
    /\ pc' = "returned"
    /\ UNCHANGED <<state, input_data, frame, before, calls, lastFetch, resolutions>>
    /\ UNCHANGED outside

Next ==
    \/ \E d \in Inputs : ProcessInvalid(d)
    \/ \E d \in Inputs : ProcessBegin(d)
    \/ ChannelUnresolved
    \/ ChannelNoVideo
    \/ ChannelVideo
    \/ ChannelInterrupted
    \/ SaveReturns
    \/ SaveRaises

Spec == Init /\ [][Next]_vars

\* ------------------------------------------------- restarts on one store

\* A document an earlier run left in the store.
SeedDoc == [resolved |-> Put(EmptyMap, RefAt, ChA), last_seen |-> Put(EmptyMap, ChA, V1)]

\* What the store can hold when the first engine instance is constructed.
InitialObjects ==
    {Absent, Corrupt, Stored(SeedDoc), AsBlob(Absent), AsBlob(Unreadable)}

InitOnStore ==
    /\ store \in InitialObjects
    /\ Constructed(store)
    /\ calls = 0
    /\ lastFetch = EmptyMap
    /\ resolutions = EmptyMap
    /\ engines = 1
    /\ stop = NoStop
    /\ peer = NoPeer
    /\ threads = [t \in Threads |-> IdleThread]
    /\ failed = NoFailure
    /\ NoTools

\* The last_seen entries of document st that document doc does not have.
Unflushed(st, doc) ==
    [c \in {x \in DOMAIN st.last_seen : get_last_seen(doc, x) # st.last_seen[x]} |->
        st.last_seen[c]]

\* the new instance goes on with the old instance's memory
Reloaded_FromMemory == state

\* The document the constructor of the new instance loads.
Reloaded == storage_load(store)

\* The process stops, wherever process() is, and a new process constructs an
\* engine instance on the same store. The histories of fetches and
\* resolutions go on when the new instance holds the document the old one held.
\* Restarts are followed while a call is left for the new instance to take.
Restart ==
    /\ engines < MaxEngines
    /\ calls < MaxCalls
    /\ engines' = engines + 1
    /\ state' = Reloaded
    /\ pc' = IF load(store).raised THEN "init_raised" ELSE "idle"
    /\ input_data' = InputNone
    /\ channels' = <<>>
    /\ idx' = 0
    /\ results' = <<>>
    /\ new_videos' = <<>>
    /\ errors' = <<>>
    /\ response' = NoResponse
    /\ last' = NoStep
    /\ before' = Reloaded
    /\ saves' = <<>>
    /\ stop' = [unflushed |-> Unflushed(state, storage_load(store)),
                pc        |-> pc,
                calls     |-> calls,
                saved     |-> pc = "returned" /\ saves = <<"returned">>,
                doc       |-> state,
                new_videos |-> new_videos]
    /\ lastFetch' = IF Reloaded = state THEN lastFetch ELSE EmptyMap
    /\ resolutions' = IF Reloaded = state THEN resolutions ELSE EmptyMap
    /\ UNCHANGED <<store, calls, peer, threads, failed, agents, toolLog>>

\* The calls made on these instances.
StoreInputs == {InputNone, ChannelsInput(<<RefId, RefAt>>)}

NextOnStore ==
    \/ \E d \in StoreInputs : ProcessInvalid(d)
    \/ \E d \in StoreInputs : ProcessBegin(d)
    \/ ChannelUnresolved
    \/ ChannelNoVideo
    \/ ChannelVideo
    \/ ChannelInterrupted
    \/ SaveReturns
    \/ SaveRaises
    \/ Restart

SpecRestart == InitOnStore /\ [][NextOnStore]_vars

\* --------------------------------------------- two instances on one store

\* What the store holds when the two instances are constructed.
SharedObjects == {Absent, Stored(SeedDoc), AsBlob(Absent)}

\* Two engine instances (two processes) constructed on the same store.
InitShared ==
    /\ store \in SharedObjects
    /\ Constructed(store)
    /\ peer = [name |-> "B", doc |-> storage_load(store), saved |-> FALSE]
    /\ threads = [t \in Threads |-> IdleThread]
    /\ calls = 0
    /\ lastFetch = EmptyMap
    /\ resolutions = EmptyMap
    /\ engines = 2
    /\ stop = NoStop
    /\ failed = NoFailure
    /\ NoTools

\* Between two calls the other instance takes its turn: the variables of
\* process() now describe that instance, and the one that was running waits
\* with its document.
Switch ==
    /\ pc \in {"idle", "returned", "aborted"}
    /\ peer' = [name  |-> IF peer.name = "A" THEN "B" ELSE "A",
                doc   |-> state,
                saved |-> pc = "returned" /\ saves = <<"returned">>]
    /\ state' = peer.doc
    /\ before' = peer.doc
    /\ pc' = "idle"
    /\ input_data' = InputNone
    /\ channels' = <<>>
    /\ idx' = 0
    /\ results' = <<>>
    /\ new_videos' = <<>>
    /\ errors' = <<>>
    /\ response' = NoResponse
    /\ last' = NoStep
    /\ saves' = <<>>
    /\ lastFetch' = EmptyMap
    /\ resolutions' = EmptyMap
    /\ UNCHANGED <<store, calls, engines, stop, threads, failed, agents, toolLog>>

\* The calls made on the two instances.
SharedInputs == {InputNone, ChannelsInput(<<RefAt>>), ChannelsInput(<<RefId>>)}

NextShared ==
    \/ \E d \in SharedInputs : ProcessInvalid(d)
    \/ \E d \in SharedInputs : ProcessBegin(d)
    \/ ChannelUnresolved
    \/ ChannelNoVideo
    \/ ChannelVideo
    \/ ChannelInterrupted
    \/ SaveReturns
    \/ SaveRaises
    \/ Switch

SpecShared == InitShared /\ [][NextShared]_vars

\* ------------------------------- stored documents of any shape, failed saves

\* What the store can hold when the engine instance is constructed: nothing,
\* or parseable JSON: [], {}, an object whose last_seen or whose resolved
\* member is an array, or a document an earlier run left.
ShapeObjects ==
    {Absent,
     Stored(ListDoc),
     Stored(EmptyMap),
     Stored([resolved |-> EmptyMap, last_seen |-> ListValue]),
     Stored([resolved |-> ListValue, last_seen |-> EmptyMap]),
     Stored(SeedDoc)}

InitAnyShape ==
    /\ store \in ShapeObjects
    /\ Constructed(store)
    /\ calls = 0
    /\ lastFetch = EmptyMap
    /\ resolutions = EmptyMap
    /\ engines = 1
    /\ stop = NoStop
    /\ peer = NoPeer
    /\ threads = [t \in Threads |-> IdleThread]
    /\ failed = NoFailure
    /\ NoTools

\* the document is rolled back to what the store holds
SaveRaises_RollsBack ==
    /\ LoopDone
    /\ store' \in storage_save_raises(store, state)
    /\ saves' = Append(saves, "raised")
    /\ response' = UnexpectedFailed("save failed")
    /\ pc' = "returned"
    /\ failed' = [call |-> calls, doc |-> state]
    /\ state' = storage_load(store)
    /\ UNCHANGED <<input_data, frame, before, calls, lastFetch, resolutions>>
    /\ UNCHANGED <<engines, stop, peer, threads, agents, toolLog>>

\* no except clause around the try block of process()
SaveRaises_Propagates ==
    /\ LoopDone
    /\ store' \in storage_save_raises(store, state)
    /\ saves' = Append(saves, "raised")
    /\ pc' = "aborted"
    /\ failed' = [call |-> calls, doc |-> state]
    /\ UNCHANGED <<state, input_data, frame, before, calls, lastFetch, resolutions, response>>
    /\ UNCHANGED <<engines, stop, peer, threads, agents, toolLog>>

\* save() raises, as in SaveRaises; the history keeps the call and the
\* document the instance held.
SaveRaisesRecorded ==
    /\ LoopDone
    /\ store' \in storage_save_raises(store, state)
    /\ saves' = Append(saves, "raised")
    /\ response' = UnexpectedFailed("save failed")
    /\ pc' = "returned"
    /\ failed' = [call |-> calls, doc |-> state]
    /\ UNCHANGED <<state, input_data, frame, before, calls, lastFetch, resolutions>>
    /\ UNCHANGED <<engines, stop, peer, threads, agents, toolLog>>

\* The calls made on this instance.
ShapeInputs == {InputNone, ChannelsInput(<<RefId, RefAt>>)}

\* A step of the process() call that is running.
CallStep ==
    \/ ChannelUnresolved
    \/ ChannelNoVideo
    \/ ChannelVideo
    \/ ChannelException
    \/ ChannelInterrupted
    \/ SaveReturns
    \/ SaveRaisesRecorded

NextAnyShape ==
    \/ \E d \in ShapeInputs : ProcessInvalid(d)
    \/ \E d \in ShapeInputs : ProcessBegin(d)
    \/ CallStep

SpecAnyShape == InitAnyShape /\ [][NextAnyShape]_vars

\* A process() call that has started goes on running: the interpreter
\* executes its next statement, and every provider and store call comes back
\* (with a value or an exception).
SpecRunToEnd == SpecAnyShape /\ WF_vars(CallStep)

\* ------------------------------------- concurrent calls on one instance

\* What the sequential process() call does not touch while threads run.
sequential ==
    <<pc, input_data, channels, idx, results, new_videos, errors, response, last, before,
      calls, saves, lastFetch, resolutions, engines, stop, peer, failed, agents, toolLog>>

\* Lines 74-87 of an iteration run by a thread on reference url: st is
\* _state after _resolve_channel_id, it the locals when is_new is computed.
read_step(r, url, lk, fo) ==
    [st |-> r.st, it |-> Locals(after_resolve(r, url, lk, fo), EmptyMap)]

ReadSteps(st, url) ==
    {read_step(resolve_channel_id(st, url, lk), url, lk, fo) :
        lk \in LookupOutcomes, fo \in FetchOutcomes}

\* is_new is decided again on the map as it is at line 90
is_new_at_write(pending, st) == IsNew(get_last_seen(st, pending.channel_id), pending.video_id)

\* "if is_new:" at line 90 tests the local computed at line 87.
is_new_local(pending, st) == pending.is_new

InitThreads ==
    /\ Init
    /\ \A t \in Threads : threads[t].pc = "idle"

\* process() up to the for loop, on thread t.
ThreadBegin(t, d) ==
    /\ threads[t].pc = "idle"
    /\ ExtractedOf[d] # <<>>
    /\ threads' = [threads EXCEPT ![t] = [IdleThread EXCEPT !.pc = "loop",
                                                           !.channels = ExtractedOf[d]]]
    /\ UNCHANGED <<store, state, sequential>>

\* process() on an input with no valid channel, on thread t.
ThreadInvalid(t, d) ==
    /\ threads[t].pc = "idle"
    /\ ExtractedOf[d] = <<>>
    /\ threads' = [threads EXCEPT ![t] = [IdleThread EXCEPT !.pc = "returned",
                                                           !.response = ValidationFailed]]
    /\ UNCHANGED <<store, state, sequential>>

ThreadInLoop(t) == threads[t].pc = "loop" /\ threads[t].idx < Len(threads[t].channels)

\* Thread t runs lines 74-87 and has a video: last_seen is read, is_new computed.
ThreadRead(t) ==
    /\ ThreadInLoop(t)
    /\ \E s \in ReadSteps(state, threads[t].channels[threads[t].idx + 1]) :
            /\ s.it.outcome = "video"
            /\ state' = s.st
            /\ threads' = [threads EXCEPT ![t].pc = "read", ![t].pending = s.it]
    /\ UNCHANGED <<store, sequential>>

\* Thread t runs an iteration that ends with an error entry.
ThreadError(t) ==
    /\ ThreadInLoop(t)
    /\ \E s \in ReadSteps(state, threads[t].channels[threads[t].idx + 1]) :
            /\ s.it.outcome \in {"unresolved", "no_video"}
            /\ state' = s.st
            /\ threads' =
                 [threads EXCEPT
                    ![t].idx = @ + 1,
                    ![t].errors =
                        Append(@, [channel |-> s.it.channel_url,
                                   error   |-> IF s.it.outcome = "unresolved"
                                               THEN "Could not resolve channel ID"
                                               ELSE "No videos found"])]
    /\ UNCHANGED <<store, sequential>>

\* A provider call of thread t's iteration raises a non-Exception.
ThreadInterrupted(t) ==
    /\ ThreadInLoop(t)
    /\ \E s \in ReadSteps(state, threads[t].channels[threads[t].idx + 1]) :
            /\ s.it.outcome = "interrupt"
            /\ state' = s.st
            /\ threads' = [threads EXCEPT ![t].pc = "aborted", ![t].pending = s.it]
    /\ UNCHANGED <<store, sequential>>

\* The result thread t appends for its pending iteration.
thread_result(pending, is_new) ==
    [channel_id |-> pending.channel_id, video_id |-> pending.video_id,
     is_new |-> is_new, channel_url |-> pending.channel_url]

\* Thread t runs lines 90-98: the update of last_seen and the result.
ThreadWrite(t) ==
    /\ threads[t].pc = "read"
    /\ state' = IF is_new_local(threads[t].pending, state)
                THEN set_last_seen(state, threads[t].pending.channel_id,
                                   threads[t].pending.video_id)
                ELSE state
    /\ threads' =
         [threads EXCEPT
            ![t].pc = "loop",
            ![t].idx = @ + 1,
            ![t].pending = NoStep,
            ![t].new_videos =
                IF is_new_local(threads[t].pending, state)
                THEN Append(@, [channel_id |-> threads[t].pending.channel_id,
                                video_id   |-> threads[t].pending.video_id])
                ELSE @,
            ![t].results =
                Append(@, thread_result(threads[t].pending,
                                        is_new_local(threads[t].pending, state))),
            ![t].log =
                Append(@, [read     |-> threads[t].pending.last_seen,
                           at_write |-> get_last_seen(state, threads[t].pending.channel_id)])]
    /\ UNCHANGED <<store, sequential>>

ThreadLoopDone(t) == threads[t].pc = "loop" /\ threads[t].idx = Len(threads[t].channels)

\* save() returns on thread t.
ThreadSaveReturns(t) ==
    /\ ThreadLoopDone(t)
    /\ store' = storage_save_ok(store, state)
    /\ threads' = [threads EXCEPT
                     ![t].pc = "returned",
                     ![t].response = BatchResponse(threads[t].channels, threads[t].results,
                                                   threads[t].new_videos, threads[t].errors)]
    /\ UNCHANGED <<state, sequential>>

\* save() raises on thread t.
ThreadSaveRaises(t) ==
    /\ ThreadLoopDone(t)
    /\ store' \in storage_save_raises(store, state)
    /\ threads' = [threads EXCEPT ![t].pc = "returned",
                                  ![t].response = UnexpectedFailed("save failed")]
    /\ UNCHANGED <<state, sequential>>

\* The calls the threads make.
ThreadInputs == {InputNone, ChannelsInput(<<RefId>>), ChannelsInput(<<RefId, RefAt>>)}

NextThreads ==
    \/ \E t \in Threads, d \in ThreadInputs : ThreadBegin(t, d)
    \/ \E t \in Threads, d \in ThreadInputs : ThreadInvalid(t, d)
    \/ \E t \in Threads : ThreadRead(t)
    \/ \E t \in Threads : ThreadError(t)
    \/ \E t \in Threads : ThreadInterrupted(t)
    \/ \E t \in Threads : ThreadWrite(t)
    \/ \E t \in Threads : ThreadSaveReturns(t)
    \/ \E t \in Threads : ThreadSaveRaises(t)

SpecThreads == InitThreads /\ [][NextThreads]_vars

\* ------------------------------------------------------- the monitor tool

\* The calls of the monitor tool: process() was called with the joined list.
ToolInputs == {ChannelsInput(l) : l \in Batches}

\* youtube_channels_monitor(channels) given the response of agent.process():
\* the counts and lists when response.success and response.data, else an error.
youtube_channels_monitor(list, resp) ==
    IF list = <<>> THEN [error |-> "At least one channel is required"]
    ELSE IF resp.status = "success" /\ resp.data # NoneOpt
    THEN [successful_channels |-> resp.data[1].successful_channels,
          total_channels      |-> resp.data[1].total_channels,
          new_videos          |-> resp.data[1].new_videos,
          all_videos          |-> resp.data[1].videos,
          errors              |-> resp.data[1].errors,
          metadata            |-> NoneOpt]
    ELSE [error |-> IF resp.error # NoText THEN resp.error ELSE "Failed to monitor channels"]

\* What the tool returned for the process() call that has just returned.
MonitorReturn ==
    youtube_channels_monitor(CHOOSE l \in Batches : ChannelsInput(l) = input_data, response)

\* ------------------------------------ the channel tools of one server process

\* The tool calls followed on one server process.
MaxToolCalls == 3

LatestTool == "youtube_channel_latest"

MonitorTool == "youtube_channels_monitor"

\* The arguments followed, possibly empty: channel_id of
\* youtube_channel_latest, channels of youtube_channels_monitor.
ToolArgs(name) ==
    IF name = LatestTool THEN {<<>>, RefId} ELSE {<<>>, <<RefId>>, <<RefId, RefBad>>}

\* What the tool passes to agent.process(): {"channels": channel_id}, or
\* {"channels": ", ".join(channels)}.
ToolInput(name, arg) ==
    IF name = LatestTool THEN InputDict(StrVal(arg), Missing) ELSE ChannelsInput(arg)

\* str(e) of the RuntimeError of get_youtube_channel_agent()
NoKeyText == "YOUTUBE_API_KEY environment variable is required"

\* the instance is constructed and returned, the slot is left as it was
get_youtube_channel_agent_NotKept(slot, key, made) ==
    IF slot # NoAgent
    THEN [raised |-> FALSE, agent |-> slot, slot |-> slot, constructed |-> FALSE]
    ELSE IF ~key
    THEN [raised |-> TRUE, agent |-> NoAgent, slot |-> slot, constructed |-> FALSE]
    ELSE [raised |-> FALSE, agent |-> made + 1, slot |-> slot, constructed |-> TRUE]

\* get_youtube_channel_agent(): slot is _agents["youtube_channel"], key
\* whether os.environ holds a non-empty YOUTUBE_API_KEY, made the number of
\* instances constructed so far. The instance in the slot is returned; an
\* empty slot without the key raises before anything is assigned; an empty
\* slot with the key gets a new instance, which is returned.
get_youtube_channel_agent(slot, key, made) ==
    IF slot # NoAgent
    THEN [raised |-> FALSE, agent |-> slot, slot |-> slot, constructed |-> FALSE]
    ELSE IF ~key
    THEN [raised |-> TRUE, agent |-> NoAgent, slot |-> slot, constructed |-> FALSE]
    ELSE [raised |-> FALSE, agent |-> made + 1, slot |-> made + 1, constructed |-> TRUE]

\* youtube_channel_latest(channel_id) given the response of agent.process():
\* the first result when response.success and response.data, else an error.
youtube_channel_latest(channel_id, resp) ==
    IF channel_id = <<>> THEN [error |-> "Channel ID is required"]
    ELSE IF resp.status = "success" /\ resp.data # NoneOpt
    THEN IF resp.data[1].videos # <<>>
         THEN [video_id |-> resp.data[1].videos[1].video_id,
               is_new   |-> resp.data[1].videos[1].is_new]
         ELSE [error |-> "No videos found for this channel"]
    ELSE [error |-> IF resp.error # NoText THEN resp.error ELSE "Failed to get channel videos"]

\* A server process that has called no tool: the slot is empty, no engine
\* instance exists, no process() call was made. The store holds the state
\* file an earlier server process saved.
InitTools ==
    /\ store = Stored(SeedDoc)
    /\ agents = NoAgent
    /\ toolLog = <<>>
    /\ engines = 0
    /\ state = EmptyDoc
    /\ pc = "idle"
    /\ input_data = InputNone
    /\ channels = <<>>
    /\ idx = 0
    /\ results = <<>>
    /\ new_videos = <<>>
    /\ errors = <<>>
    /\ response = NoResponse
    /\ last = NoStep
    /\ before = state
    /\ saves = <<>>
    /\ calls = 0
    /\ lastFetch = EmptyMap
    /\ resolutions = EmptyMap
    /\ stop = NoStop
    /\ peer = NoPeer
    /\ threads = [t \in Threads |-> IdleThread]
    /\ failed = NoFailure

\* A tool may be called when no tool call is running.
CanCallTool == pc \in {"idle", "returned", "aborted"} /\ Len(toolLog) < MaxToolCalls

\* The entry of the history for a call of tool `name` on `arg`: what it read
\* for the key ("not_read" when it did not get to os.environ), how it came to
\* its instance, and which process() call it made.
ToolCall(name, arg, key, agent, call) ==
    [name |-> name, arg |-> arg, key |-> key, agent |-> agent, call |-> call]

\* "if not channels" / "if not channel_id": the tool returns its error
\* without asking for the instance.
ToolRejects(name, arg) ==
    /\ CanCallTool
    /\ arg = <<>>
    /\ toolLog' = Append(toolLog, ToolCall(name, arg, "not_read", "not_asked", 0))
    /\ UNCHANGED <<store, state, pc, input_data, frame, response, before, calls, saves,
                   lastFetch, resolutions, engines, stop, peer, threads, failed, agents>>

\* get_youtube_channel_agent() raises in the tool: the except clause of the
\* tool returns {"error": str(e)}, process() is not called.
ToolWithoutAgent(name, arg, key) ==
    LET g == get_youtube_channel_agent(agents, key, engines)
    IN  /\ CanCallTool
        /\ arg # <<>>
        /\ g.raised
        /\ agents' = g.slot
        /\ toolLog' = Append(toolLog, ToolCall(name, arg, "unset", "no_key", 0))
        /\ UNCHANGED <<store, state, pc, input_data, frame, response, before, calls, saves,
                       lastFetch, resolutions, engines, stop, peer, threads, failed>>

\* The tool gets the instance, constructing it on the store when the slot is
\* empty, and calls agent.process(): process() up to the for loop.
ToolProcess(name, arg, key) ==
    LET g  == get_youtube_channel_agent(agents, key, engines)
        st == IF g.constructed THEN storage_load(store) ELSE state
        d  == ToolInput(name, arg)
    IN  /\ CanCallTool
        /\ calls < MaxCalls
        /\ arg # <<>>
        /\ ~g.raised
        /\ extract_channels(d) # <<>>
        /\ agents' = g.slot
        /\ engines' = IF g.constructed THEN engines + 1 ELSE engines
        /\ state' = st
        /\ toolLog' = Append(toolLog,
                             IF g.constructed
                             THEN ToolCall(name, arg, "set", "constructed", calls + 1)
                             ELSE ToolCall(name, arg, "not_read", "found", calls + 1))
        /\ input_data' = d
        /\ channels' = extract_channels(d)
        /\ idx' = 0
        /\ results' = <<>>
        /\ new_videos' = <<>>
        /\ errors' = <<>>
        /\ last' = NoStep
        /\ response' = NoResponse
        /\ pc' = "loop"
        /\ calls' = calls + 1
        /\ before' = st
        /\ saves' = <<>>
        /\ UNCHANGED <<store, lastFetch, resolutions, stop, peer, threads, failed>>

\* The tool call made last.
LastTool == toolLog[Len(toolLog)]

\* What the last tool call returned, once process() has returned if the
\* tool called it.
ToolReturn ==
    IF LastTool.agent = "no_key" THEN [error |-> NoKeyText]
    ELSE IF LastTool.name = LatestTool
    THEN youtube_channel_latest(LastTool.arg, response)
    ELSE youtube_channels_monitor(LastTool.arg, response)

NextTools ==
    \/ \E name \in {LatestTool, MonitorTool} : \E arg \in ToolArgs(name) :
            ToolRejects(name, arg)
    \/ \E name \in {LatestTool, MonitorTool} : \E arg \in ToolArgs(name) :
            \E key \in BOOLEAN : ToolWithoutAgent(name, arg, key)
    \/ \E name \in {LatestTool, MonitorTool} : \E arg \in ToolArgs(name) :
            \E key \in BOOLEAN : ToolProcess(name, arg, key)
    \/ ChannelUnresolved
    \/ ChannelNoVideo
    \/ ChannelVideo
    \/ ChannelInterrupted
    \/ SaveReturns
    \/ SaveRaises

SpecTools == InitTools /\ [][NextTools]_vars

\* ------------------------------------------------------------------- claims

\* The result the last iteration appended (when it ended with a video).
LastResult == results[Len(results)]

\* The error entry the last iteration appended (when it ended with an error).
LastError == errors[Len(errors)]

\* C1: for a reference whose resolution and fetch both succeed, is_new is true
\* exactly when last_seen had no entry for the resolved channel ID or an entry
\* other than the fetched video ID; and when is_new is true, last_seen of that
\* channel is the fetched video ID right after the reference's iteration.
C1_NewIffAbsentOrDifferent ==
    last.outcome = "video" =>
        LET ch  == LastResult.channel_id
            v   == LastResult.video_id
            old == before.last_seen
        IN  /\ LastResult.is_new <=> (ch \notin DOMAIN old \/ old[ch] # v)
            /\ LastResult.is_new =>
                   ch \in DOMAIN state.last_seen /\ state.last_seen[ch] = v

\* a channel with a last_seen entry gets another video: new, and the entry follows
C1_Witness ==
    /\ pc = "loop"
    /\ last.outcome = "video"
    /\ LastResult.channel_id \in DOMAIN before.last_seen
    /\ before.last_seen[LastResult.channel_id] = V1
    /\ LastResult.video_id = V2
    /\ LastResult.is_new
    /\ state.last_seen[LastResult.channel_id] = V2

\* C2: when a channel's fetch returns the video ID that its most recent
\* successful fetch, in the previous call (or earlier in this one), returned,
\* the result has is_new = false and last_seen of the channel is unchanged.
C2_UnchangedVideoNotNew ==
    (/\ last.outcome = "video"
     /\ last.prev_fetch.call >= 1
     /\ last.prev_fetch.call >= calls - 1
     /\ last.prev_fetch.video_id = last.video_id)
        => /\ LastResult.is_new = FALSE
           /\ get_last_seen(state, last.channel_id) = get_last_seen(before, last.channel_id)
           /\ get_last_seen(state, last.channel_id) = last.video_id

\* the second of two calls fetches the video the first call fetched
C2_Witness ==
    /\ calls = 2
    /\ last.outcome = "video"
    /\ last.prev_fetch = [video_id |-> last.video_id, call |-> 1]
    /\ LastResult.is_new = FALSE

\* C3: once a reference has been resolved, every later resolution of the same
\* string returns the ID the first one returned and issues no name search: a
\* reference first resolved by a name search has had exactly one search since,
\* a reference first resolved by the ID pattern none.
C3_ResolvedOnce ==
    /\ \A url \in DOMAIN resolutions :
           resolutions[url].lk = (IF resolutions[url].by_lookup THEN 1 ELSE 0)
    /\ (last.outcome # "none" /\ last.channel_url \in DOMAIN resolutions)
           => last.channel_id = resolutions[last.channel_url].id

\* the handle is resolved a second time, from the cache, after the one search
C3_Witness ==
    /\ last.channel_url = RefAt
    /\ last.outcome = "video"
    /\ ~last.lookup
    /\ resolutions[RefAt].by_lookup
    /\ resolutions[RefAt].lk = 1
    /\ resolutions[RefAt].id = last.channel_id

\* C4 as claimed: every process() call on a non-empty list that has ended
\* called save() exactly once.
C4_EveryCallSavesOnce ==
    (pc \in {"returned", "aborted"} /\ channels # <<>>) => Len(saves) = 1

\* C4 as amended: a process() call on a non-empty list that returns has called
\* save() exactly once, after the last reference was attempted, whatever the
\* channels' outcomes; save() is never called earlier or twice, and a call
\* that a non-Exception ended has not called it.
C4_SaveOnceAtEnd ==
    /\ Len(saves) <= 1
    /\ Len(saves) = 1 =>
           /\ pc = "returned"
           /\ channels # <<>>
           /\ idx = Len(channels)
    /\ (pc = "returned" /\ channels # <<>>) => Len(saves) = 1
    /\ pc = "aborted" => saves = <<>>

\* every channel failed and no map was modified: save() was still called
C4_Witness ==
    /\ pc = "returned"
    /\ Len(channels) = 2
    /\ results = <<>>
    /\ state = EmptyDoc
    /\ Len(saves) = 1

\* how often reference u occurs among the first n references of the call
Occurrences(u, n) == Cardinality({i \in 1..n : channels[i] = u})

\* C5: a failing reference never stops the batch: every reference attempted
\* so far has exactly one entry, a result or an error entry with the reference,
\* a returned call attempted them all, and a success or partial response
\* counts the references and the results.
C5_OneEntryPerReference ==
    /\ Len(results) + Len(errors) = idx
    /\ \A u \in {channels[i] : i \in 1..Len(channels)} :
           Cardinality({i \in 1..Len(results) : results[i].channel_url = u})
               + Cardinality({i \in 1..Len(errors) : errors[i].channel = u})
           = Occurrences(u, idx)
    /\ last.outcome \in {"unresolved", "no_video"} =>
           /\ pc \in {"loop", "returned"}
           /\ LastError.channel = last.channel_url
    /\ pc = "returned" => idx = Len(channels)
    /\ (pc = "returned" /\ response.status \in {"success", "partial"}) =>
           /\ response.data[1].total_channels = Len(channels)
           /\ response.data[1].successful_channels = Len(response.data[1].videos)
           /\ response.data[1].videos = results

\* the first reference failed and the second one was still processed
C5_Witness ==
    /\ pc = "returned"
    /\ response.status = "partial"
    /\ Len(channels) = 2
    /\ errors[1].channel = channels[1]
    /\ results[1].channel_url = channels[2]

\* C6: after a save() that returned, the status is failed when there is no
\* result and at least one error, partial when there are both, success otherwise.
C6_BatchOutcome ==
    (pc = "returned" /\ saves = <<"returned">>) =>
        /\ (results = <<>> /\ errors # <<>>) => response.status = "failed"
        /\ (results # <<>> /\ errors # <<>>) => response.status = "partial"
        /\ errors = <<>> => response.status = "success"

\* three references, the second fails resolution: two results, one error, partial
C6_Witness ==
    /\ pc = "returned"
    /\ channels = <<RefId, RefBad, RefAt>>
    /\ Len(results) = 2
    /\ errors = <<[channel |-> RefBad, error |-> "Could not resolve channel ID"]>>
    /\ response.status = "partial"
    /\ Len(response.data[1].videos) = 2

\* C7: when save() fails at the end of a batch in which a channel produced a
\* result, the response still contains the batch's results.
C7_SaveFailureKeepsResults ==
    (pc = "returned" /\ saves = <<"raised">> /\ results # <<>>) =>
        /\ idx = Len(channels)
        /\ response.data # NoneOpt
        /\ "videos" \in DOMAIN response.data[1]
        /\ response.data[1].videos = results

\* C8: an Exception raised by the provider during a reference's iteration
\* becomes one error entry for that reference; the batch goes on, and it
\* returns only after every reference was attempted and save() was called.
C8_ProviderErrorIsPerChannel ==
    /\ last.provider_error =>
           /\ last.outcome \in {"unresolved", "no_video"}
           /\ pc \in {"loop", "returned"}
           /\ Len(results) + Len(errors) = idx
           /\ LastError.channel = last.channel_url
           /\ last.channel_url = channels[idx]
    /\ pc = "returned" /\ channels # <<>> => idx = Len(channels) /\ Len(saves) = 1

\* a provider error on the first of two references: the second is still to come
C8_Witness ==
    /\ last.provider_error
    /\ pc = "loop"
    /\ idx = 1
    /\ Len(channels) = 2
    /\ errors = <<[channel |-> channels[1], error |-> "No videos found"]>>

\* C9 as claimed: when a provider call of the iteration throws, the remaining
\* references are not processed and save() is skipped.
C9_AnyThrowAborts ==
    (last.provider_error \/ last.provider_interrupt) => (pc = "aborted" /\ saves = <<>>)

\* C9 as amended: a batch runs to completion, every reference attempted and
\* save() called, unless a provider call raises a non-Exception; then, and
\* only then, the call ends at that reference without save() and without a
\* response. An Exception raised by a provider call does not end the batch.
C9_OnlyNonExceptionAborts ==
    /\ last.provider_interrupt <=> pc = "aborted"
    /\ pc = "aborted" =>
           /\ idx < Len(channels)
           /\ last.channel_url = channels[idx + 1]
           /\ saves = <<>>
           /\ response = NoResponse
    /\ last.provider_error => pc # "aborted"
    /\ pc = "returned" /\ channels # <<>> => idx = Len(channels) /\ Len(saves) = 1

\* the first of three references is interrupted: two are left unprocessed
C9_Witness ==
    /\ pc = "aborted"
    /\ Len(channels) = 3
    /\ idx = 0
    /\ saves = <<>>
    /\ state # before

\* C10: a call whose input has no valid reference returns the validation
\* error without any iteration and without save(), and changes neither map
\* nor the backing file.
C10_InvalidInput ==
    /\ [](pc # "idle" /\ input_data \in InvalidInputs =>
            /\ pc = "returned"
            /\ response = ValidationFailed
            /\ last = NoStep
            /\ saves = <<>>
            /\ state = before)
    /\ [][(calls' = calls + 1 /\ input_data' \in InvalidInputs) =>
            (state' = state /\ store' = store
             /\ lastFetch' = lastFetch /\ resolutions' = resolutions)]_vars

\* blank entries only, on an engine whose maps and file are not empty
C10_Witness ==
    /\ pc = "returned"
    /\ input_data = InputDict(StrVal(<<" ", ",", " ">>), Missing)
    /\ response = ValidationFailed
    /\ state.resolved # EmptyMap
    /\ state.last_seen # EmptyMap
    /\ store.kind = "doc"

\* C11: constructing an engine never raises, and on a backing object that is
\* missing, unreadable or unparseable the document after construction is
\* exactly resolved = {} and last_seen = {}.
C11_FailOpenLoad ==
    /\ pc # "init_raised"
    /\ (pc = "idle" /\ store.kind # "doc") =>
           /\ ~load(store).raised
           /\ state = EmptyDoc
           /\ state.resolved = EmptyMap
           /\ state.last_seen = EmptyMap

\* an instance constructed on the file a failed save() truncated: the maps
\* the previous instance held are gone
C11_Witness ==
    /\ engines = 2
    /\ pc = "idle"
    /\ store.kind = "corrupt"
    /\ stop.unflushed # EmptyMap
    /\ state = EmptyDoc

\* C12: resolving a reference that holds a substring of the channel-ID shape
\* and is not cached returns that substring (the leftmost one) and issues no
\* name search, also when the reference holds a handle as well.
C12_DirectIdShortcut ==
    (/\ last.outcome # "none"
     /\ Truthy(id_in_url(last.channel_url))
     /\ ~Truthy(get_resolved(before, last.channel_url)))
        => /\ last.channel_id = id_in_url(last.channel_url)
           /\ ~last.lookup
           /\ last.channel_url = RefId => last.channel_id = RefId
           /\ last.channel_url = RefBoth => last.channel_id = ChB
           /\ get_resolved(state, last.channel_url) = last.channel_id

\* the reference with a handle and an ID in it, not cached, resolved to the ID
C12_Witness ==
    /\ last.channel_url = RefBoth
    /\ Truthy(name_in_url(RefBoth))
    /\ get_resolved(before, RefBoth) = None
    /\ last.outcome = "video"
    /\ last.channel_id = ChB
    /\ ~last.lookup

\* c is a and b interleaved, each in its order
RECURSIVE IsInterleaving(_, _, _)
IsInterleaving(a, b, c) ==
    IF c = <<>> THEN a = <<>> /\ b = <<>>
    ELSE \/ a # <<>> /\ Head(a) = Head(c) /\ IsInterleaving(Tail(a), b, Tail(c))
         \/ b # <<>> /\ Head(b) = Head(c) /\ IsInterleaving(a, Tail(b), Tail(c))

\* The results of the current call on channel ch before result number j.
EarlierResults(ch, j) == {i \in 1..(j - 1) : results[i].channel_id = ch}

\* C13: within a batch the references are taken one after another in list
\* order: videos and errors, each in its order, interleave to the references
\* attempted so far, and the is_new of a result whose channel has an earlier
\* result in the batch is decided against that earlier result's video.
C13_SequentialInOrder ==
    /\ IsInterleaving([i \in 1..Len(results) |-> results[i].channel_url],
                      [i \in 1..Len(errors) |-> errors[i].channel],
                      SubSeq(channels, 1, idx))
    /\ \A j \in 1..Len(results) :
           EarlierResults(results[j].channel_id, j) # {} =>
               (results[j].is_new <=>
                   results[j].video_id #
                       results[Max(EarlierResults(results[j].channel_id, j))].video_id)
    /\ last.outcome \in {"video", "unresolved", "no_video"} =>
           last.channel_url = channels[idx]

\* two references of one channel in a batch: the second sees the first's update
C13_Witness ==
    /\ pc = "returned"
    /\ calls = 1
    /\ channels = <<RefId, RefAt>>
    /\ Len(results) = 2
    /\ results[1].channel_url = RefId
    /\ results[2].channel_url = RefAt
    /\ results[1].channel_id = results[2].channel_id
    /\ results[1].video_id = results[2].video_id
    /\ results[1].is_new
    /\ ~results[2].is_new

\* C14: an engine instance constructed after a batch whose save() succeeded
\* holds the document the saving instance held; it classifies a channel whose
\* latest video is the one that document has as not new, and resolves a
\* reference that document has without a name search, to the same ID.
C14_RestartRoundTrip ==
    (engines > 1 /\ stop.saved) =>
        /\ pc = "idle" =>
               /\ state = stop.doc
               /\ state.resolved = stop.doc.resolved
               /\ state.last_seen = stop.doc.last_seen
        /\ (/\ last.outcome = "video"
            /\ last.prev_fetch.call <= stop.calls
            /\ get_last_seen(stop.doc, last.channel_id) = last.video_id)
               => ~last.is_new /\ get_last_seen(state, last.channel_id) = last.video_id
        /\ (/\ last.outcome # "none"
            /\ Truthy(get_resolved(stop.doc, last.channel_url)))
               => ~last.lookup /\ last.channel_id = get_resolved(stop.doc, last.channel_url)

\* the handle the first instance searched and saved is resolved by the second
\* from its cache, and the video the first instance fetched is not new
C14_Witness ==
    /\ engines = 2
    /\ stop.saved
    /\ stop.calls = 1
    /\ last.channel_url = RefAt
    /\ last.outcome = "video"
    /\ last.prev_fetch = [video_id |-> last.video_id, call |-> 1]
    /\ resolutions[RefAt].by_lookup
    /\ ~last.lookup
    /\ ~last.is_new

\* The previous instance stopped inside a batch, before its save(), and that
\* batch had classified the video of the last iteration as new and set it as
\* last_seen of the channel; the new instance has not fetched the channel before.
RefetchOfUnsaved ==
    /\ engines > 1
    /\ stop.pc \in {"loop", "aborted"}
    /\ last.outcome = "video"
    /\ last.prev_fetch.call <= stop.calls
    /\ get_last_seen(stop.doc, last.channel_id) = last.video_id
    /\ \E i \in 1..Len(stop.new_videos) :
           stop.new_videos[i] = [channel_id |-> last.channel_id, video_id |-> last.video_id]

\* C15 as claimed: after a stop between a batch's last_seen update and its
\* save(), the next instance classifies the same latest video as new again.
C15_UnsavedIsNewAgain == RefetchOfUnsaved => last.is_new

\* C15 as amended: the next instance does not have a last_seen update that
\* the store did not hold, and classifies that video as new again; an update
\* to the video ID the store already held for the channel is not new again.
C15_DurabilityGap ==
    /\ (engines > 1 /\ pc = "idle") =>
           \A c \in DOMAIN stop.unflushed : get_last_seen(state, c) # stop.unflushed[c]
    /\ RefetchOfUnsaved => (last.is_new <=> last.channel_id \in DOMAIN stop.unflushed)

\* the process stopped in the loop after a new video; the next instance, on
\* the store without it, reports the same video as new
C15_Witness ==
    /\ RefetchOfUnsaved
    /\ stop.pc = "loop"
    /\ last.channel_id \in DOMAIN stop.unflushed
    /\ stop.unflushed[last.channel_id] = last.video_id
    /\ last.is_new
    /\ store.kind = "doc"

\* C16: a save() that returns leaves in the store exactly the document of
\* the saving instance, whatever the store held and whatever the other
\* instance wrote before: an entry that only the other instance has is not in
\* the store afterwards.
C16_LastWriteWins ==
    (pc = "returned" /\ saves = <<"returned">>) =>
        /\ store.kind = "doc"
        /\ store.text = json_dumps(state)
        /\ storage_load(store) = state
        /\ \A url \in DOMAIN peer.doc.resolved :
               url \notin DOMAIN state.resolved =>
                   get_resolved(storage_load(store), url) = None
        /\ \A c \in DOMAIN peer.doc.last_seen :
               get_last_seen(storage_load(store), c) = get_last_seen(state, c)

\* instance A resolved a reference and saved, then instance B saved: the
\* store is B's document and A's entry is gone from it
C16_Witness ==
    /\ peer.name = "A"
    /\ peer.saved
    /\ pc = "returned"
    /\ saves = <<"returned">>
    /\ get_resolved(peer.doc, RefId) = ChA
    /\ get_last_seen(peer.doc, ChA) = V2
    /\ get_resolved(storage_load(store), RefId) = None
    /\ get_last_seen(storage_load(store), ChA) # V2
    /\ storage_load(store) = state

\* The results the threads have appended for channel c: thread and index.
ThreadResults(c) ==
    {e \in Threads \X (1..2) :
        /\ e[2] <= Len(threads[e[1]].results)
        /\ threads[e[1]].results[e[2]].channel_id = c}

\* Another thread wrote last_seen of the channel between the read and the
\* write of the iteration that appended result e.
Raced(e) == threads[e[1]].log[e[2]].read # threads[e[1]].log[e[2]].at_write

\* C17: concurrent batches on one instance are not isolated: is_new is what the
\* iteration decided on the last_seen it read, also when another batch has
\* written the channel's last_seen since; whereas when no iteration was
\* interleaved in this way, of the results reporting the same video of a
\* channel exactly one is new.
C17_NoIsolation ==
    \A c \in Channels :
        /\ \A e \in ThreadResults(c) :
               threads[e[1]].results[e[2]].is_new <=>
                   threads[e[1]].log[e[2]].read # threads[e[1]].results[e[2]].video_id
        /\ \A v \in Videos :
               (/\ ThreadResults(c) # {}
                /\ \A e \in ThreadResults(c) :
                       threads[e[1]].results[e[2]].video_id = v /\ ~Raced(e))
                   => Cardinality({e \in ThreadResults(c) :
                                      threads[e[1]].results[e[2]].is_new}) = 1

\* both threads read last_seen before either wrote it: the same video of the
\* same channel is new in both batches
C17_Witness ==
    /\ threads["t1"].pc = "returned"
    /\ threads["t2"].pc = "returned"
    /\ Len(threads["t1"].results) = 1
    /\ Len(threads["t2"].results) = 1
    /\ threads["t1"].results[1].channel_id = threads["t2"].results[1].channel_id
    /\ threads["t1"].results[1].video_id = threads["t2"].results[1].video_id
    /\ threads["t1"].results[1].is_new
    /\ threads["t2"].results[1].is_new
    /\ Raced(<<"t2", 1>>)
    /\ threads["t1"].response.status = "success"
    /\ threads["t2"].response.status = "success"

\* C18: for a batch in which a channel succeeded (and whose save() returned),
\* the monitor tool returns the counts, all results, the new ones and the
\* per-channel errors, also when other channels of the batch failed.
C18_MonitorReturnsBatch ==
    (/\ pc = "returned"
     /\ input_data \in ToolInputs
     /\ saves = <<"returned">>
     /\ results # <<>>)
        => /\ "all_videos" \in DOMAIN MonitorReturn
           /\ MonitorReturn.all_videos = results
           /\ MonitorReturn.new_videos = new_videos
           /\ MonitorReturn.total_channels = Len(channels)
           /\ MonitorReturn.successful_channels = Len(results)
           /\ errors # <<>> => MonitorReturn.errors = Some(errors)

\* C19: when the resolver obtains an ID by the ID pattern or by the name
\* search, resolved[ref] = id is written for the reference as given before it
\* returns, also when the fetch that follows fails or raises.
C19_ResolutionIsCached ==
    (/\ last.outcome # "none"
     /\ Truthy(last.channel_id)
     /\ ~Truthy(get_resolved(before, last.channel_url)))
        => /\ last.channel_url \in DOMAIN state.resolved
           /\ state.resolved[last.channel_url] = last.channel_id
           /\ \A k \in DOMAIN state.resolved :
                  k # last.channel_url =>
                      k \in DOMAIN before.resolved /\ state.resolved[k] = before.resolved[k]

\* a handle resolved by the search whose fetch then failed: it is cached
C19_Witness ==
    /\ last.outcome = "no_video"
    /\ last.provider_error
    /\ last.lookup
    /\ last.channel_url = RefAt
    /\ get_resolved(before, RefAt) = None
    /\ get_resolved(state, RefAt) = last.channel_id
    /\ Truthy(last.channel_id)

\* C20: the cache is keyed by the reference string as given: a reference that
\* is not a key of the map is resolved on its own, a name-form reference by
\* its own name search, whatever the other entries are, and gets its own entry
\* beside the entries of other references to the same channel.
C20_KeyedByReference ==
    (last.outcome # "none" /\ last.channel_url \notin DOMAIN before.resolved) =>
        /\ last.channel_url \in {RefAt, RefPath} => last.lookup
        /\ Truthy(id_in_url(last.channel_url)) => last.channel_id = id_in_url(last.channel_url)
        /\ Truthy(last.channel_id) =>
               DOMAIN state.resolved = DOMAIN before.resolved \cup {last.channel_url}

\* the /c/ reference issues its own search although the handle of the same
\* channel is cached; afterwards both are entries for that channel
C20_Witness ==
    /\ last.channel_url = RefPath
    /\ last.lookup
    /\ get_resolved(before, RefAt) = ChA
    /\ get_resolved(before, RefPath) = None
    /\ get_resolved(state, RefAt) = ChA
    /\ get_resolved(state, RefPath) = ChA

\* The name search raises an Exception (HttpError or any other).
LookupRaises == [k |-> "error", id |-> None]

\* C21: an Exception raised by the name search does not leave the resolver:
\* whatever reference the loop takes next, a resolution of it that issues the
\* search and gets the Exception returns no ID and leaves the document as it
\* was, and the iteration ends unresolved; and an iteration that ended
\* unresolved left the document unchanged and appended the error entry
\* "Could not resolve channel ID" for its reference, the call going on.
C21_LookupErrorIsUnresolved ==
    /\ InLoop =>
           LET r == resolve_channel_id(state, channel_url, LookupRaises)
           IN  r.lookup =>
                   /\ ~r.raised
                   /\ r.id = None
                   /\ r.st = state
                   /\ \A fo \in FetchOutcomes :
                          /\ Iteration(state, channel_url, LookupRaises, fo).outcome = "unresolved"
                          /\ Iteration(state, channel_url, LookupRaises, fo).st = state
    /\ last.outcome = "unresolved" =>
           /\ state = before
           /\ LastError = [channel |-> last.channel_url, error |-> "Could not resolve channel ID"]
           /\ pc \in {"loop", "returned"}
           /\ last.channel_url = channels[idx]

\* the search for the handle raised, after another reference was resolved and
\* cached: the map still holds that entry only, the error entry is recorded
C21_Witness ==
    /\ last.outcome = "unresolved"
    /\ last.lookup
    /\ last.provider_error
    /\ last.channel_url = RefAt
    /\ state.resolved = Put(EmptyMap, RefId, ChA)
    /\ before.resolved = state.resolved
    /\ LastError = [channel |-> RefAt, error |-> "Could not resolve channel ID"]

\* The error entries of the current call, but the last iteration's own, that
\* say that reference u was not resolved.
EarlierUnresolved(u) ==
    {i \in 1..(Len(errors) - (IF last.outcome = "unresolved" THEN 1 ELSE 0)) :
        errors[i] = [channel |-> u, error |-> "Could not resolve channel ID"]}

\* C22: an unresolved outcome is not cached: after an iteration that ended
\* unresolved the resolved map has no entry for its reference, the map has
\* entries only for references that were resolved successfully, every
\* resolution of a name-form reference that the map does not have issues the
\* name search, and so does the resolution of a name-form reference that an
\* earlier iteration of the call left unresolved.
C22_UnresolvedNotCached ==
    /\ last.outcome = "unresolved" =>
           /\ last.channel_url \notin DOMAIN state.resolved
           /\ state.resolved = before.resolved
    /\ DOMAIN state.resolved = DOMAIN resolutions
    /\ (/\ last.outcome # "none"
        /\ Truthy(name_in_url(last.channel_url))
        /\ ~Truthy(id_in_url(last.channel_url))
        /\ last.channel_url \notin DOMAIN before.resolved)
           => last.lookup
    /\ (/\ last.outcome # "none"
        /\ EarlierUnresolved(last.channel_url) # {}
        /\ \A i \in 1..(Len(results) - (IF last.outcome = "video" THEN 1 ELSE 0)) :
               results[i].channel_url # last.channel_url)
           => /\ last.channel_url \notin DOMAIN before.resolved
              /\ Truthy(name_in_url(last.channel_url)) => last.lookup

\* the handle twice in a batch: the first search found nothing, the second
\* iteration searched again and resolved it
C22_Witness ==
    /\ channels = <<RefAt, RefAt>>
    /\ idx = 2
    /\ errors = <<[channel |-> RefAt, error |-> "Could not resolve channel ID"]>>
    /\ last.channel_url = RefAt
    /\ last.outcome = "video"
    /\ last.lookup
    /\ get_resolved(before, RefAt) = None
    /\ get_resolved(state, RefAt) = last.channel_id

\* How many entries of new_videos are video v of channel ch.
TimesNew(ch, v) ==
    Cardinality({i \in 1..Len(new_videos) :
                    new_videos[i] = [channel_id |-> ch, video_id |-> v]})

\* C23: when a batch reaches the same channel more than once (the same
\* reference twice, or two references of one channel) and every fetch returns
\* the same video, which last_seen did not hold when the first of them was
\* classified, there is one result per reference, the first with is_new = true
\* and every later one with is_new = false, and new_videos has the video once.
C23_SameChannelTwice ==
    /\ (last.outcome = "video" /\ EarlierResults(last.channel_id, Len(results)) = {}) =>
           (LastResult.is_new <=> last.last_seen # last.video_id)
    /\ \A j \in 1..Len(results) :
           LET ch    == results[j].channel_id
               v     == results[j].video_id
               first == Min(EarlierResults(ch, j) \cup {j})
           IN  (/\ EarlierResults(ch, j) # {}
                /\ \A i \in EarlierResults(ch, j) : results[i].video_id = v
                /\ results[first].is_new)
                   => /\ ~results[j].is_new
                      /\ \A i \in EarlierResults(ch, j) : i # first => ~results[i].is_new
                      /\ TimesNew(ch, v) = 1
                      /\ get_last_seen(state, ch) = v

\* the same handle twice in one batch, the video not seen before: two
\* results, new then not new, and one entry of new_videos
C23_Witness ==
    /\ pc = "returned"
    /\ calls = 1
    /\ channels = <<RefAt, RefAt>>
    /\ Len(results) = 2
    /\ results[1].channel_id = results[2].channel_id
    /\ results[1].video_id = results[2].video_id
    /\ results[1].is_new
    /\ ~results[2].is_new
    /\ Len(new_videos) = 1
    /\ response.status = "success"
    /\ Len(response.data[1].videos) = 2
    /\ Len(response.data[1].new_videos) = 1

\* C24: at every point of every sequence of batches on an engine instance,
\* last_seen of a channel that had a successful fetch on the instance is the
\* video ID the most recent of these fetches returned, one video ID; and
\* last_seen has entries for these channels only.
C24_LastSeenIsMostRecent ==
    /\ \A c \in DOMAIN lastFetch :
           /\ c \in DOMAIN state.last_seen
           /\ state.last_seen[c] = lastFetch[c].video_id
           /\ state.last_seen[c] \in Videos
    /\ DOMAIN state.last_seen = DOMAIN lastFetch
    /\ last.outcome = "video" =>
           /\ lastFetch[last.channel_id].video_id = last.video_id
           /\ get_last_seen(state, last.channel_id) = last.video_id

\* the channel's fetch of the first call returned v2, the fetch of the second
\* call returns v1: last_seen is v1, the most recent, and v2 is gone
C24_Witness ==
    /\ calls = 2
    /\ last.outcome = "video"
    /\ last.prev_fetch = [video_id |-> V2, call |-> 1]
    /\ get_last_seen(before, last.channel_id) = V2
    /\ last.video_id = V1
    /\ get_last_seen(state, last.channel_id) = V1
    /\ lastFetch[last.channel_id] = [video_id |-> V1, call |-> 2]

\* C25: the content of the store changes only in save(): a step that changes
\* it is the save() at the end of the loop; no iteration of the loop (and so
\* no get_resolved, set_resolved, get_last_seen or set_last_seen) and no
\* start of a call changes it; a save() that returns leaves the document of
\* the instance in it, which the store then holds until the next save().
C25_StoreChangesOnlyInSave ==
    /\ [][store' # store => (LoopDone /\ Len(saves') = Len(saves) + 1)]_vars
    /\ [][(InLoop \/ calls' # calls) => store' = store]_vars
    /\ [][(saves' = <<"returned">> /\ saves = <<>>) =>
            (store'.kind = "doc" /\ store'.text = json_dumps(state) /\ state' = state)]_vars
    /\ []((pc = "returned" /\ saves = <<"returned">>) => storage_load(store) = state)

\* in the loop of the second call, after set_resolved and set_last_seen have
\* changed the maps: the store still holds the document the first call saved
C25_Witness ==
    /\ calls = 2
    /\ pc = "loop"
    /\ last.outcome = "video"
    /\ last.is_new
    /\ last.lookup
    /\ store.kind = "doc"
    /\ storage_load(store) # state
    /\ get_last_seen(storage_load(store), last.channel_id) = last.last_seen
    /\ get_resolved(storage_load(store), last.channel_url) = None
    /\ storage_load(store).last_seen # EmptyMap

\* C26: every video a call of process() classified as new (advancing
\* last_seen) is in the new_videos list of the response the call returns.
C26_NewVideosDelivered ==
    (pc = "returned" /\ new_videos # <<>>) =>
        /\ response.data # NoneOpt
        /\ "new_videos" \in DOMAIN response.data[1]
        /\ response.data[1].new_videos = new_videos

\* The statuses of AgentResponseStatus.
Statuses == {"success", "partial", "failed"}

\* C27 as claimed: process() never raises to its caller; whatever the input,
\* the provider and the store do, a call that has ended has returned a
\* response whose status is SUCCESS, PARTIAL or FAILED.
C27_NeverRaises ==
    /\ pc # "aborted"
    /\ pc = "returned" => response.status \in Statuses

\* C27 as amended: process() never raises an Exception to its caller: on None
\* or a dict as input, whatever shape the loaded document has, whatever
\* Exception the provider, the accessors or save() raise, a call that has
\* started ends, and it returns a response whose status is SUCCESS, PARTIAL
\* or FAILED, unless a provider call raised a non-Exception: then, and only
\* then, that error leaves process() and there is no response.
C27_RaisesOnlyNonException ==
    /\ [](pc = "returned" => response.status \in Statuses)
    /\ [](pc = "aborted" <=> last.provider_interrupt)
    /\ [](pc = "aborted" => response = NoResponse)
    /\ [](pc \in {"idle", "loop", "returned", "aborted"})
    /\ (pc = "loop") ~> (pc \in {"returned", "aborted"})

\* the stored document is a JSON array: get_resolved raises for both
\* references, then save() raises too, and the call returns FAILED
C27_Witness ==
    /\ pc = "returned"
    /\ state = ListDoc
    /\ Len(channels) = 2
    /\ Len(errors) = 2
    /\ errors[1].error = NoGetText
    /\ errors[2].error = NoGetText
    /\ saves = <<"raised">>
    /\ response = UnexpectedFailed("save failed")

\* The members of document doc that document now does not hold, other than
\* last_seen entries of channels fetched again in a call after call number n.
MissingSince(doc, now, n) ==
    {m \in json_dumps(doc).members :
        /\ m \notin json_dumps(now).members
        /\ ~(/\ m[1] = "last_seen"
             /\ m[2] \in DOMAIN lastFetch
             /\ lastFetch[m[2]].call > n)}

\* C28: a save() that raises does not roll memory back: when the call
\* returns, the instance holds the document it tried to save, with the
\* last_seen the batch set for its new videos; afterwards the instance never
\* loses a member of that document (a last_seen entry only changes by a later
\* fetch of its channel), and the next save() that returns writes the
\* instance's whole document, that batch's members and the later ones.
C28_FailedSaveKeepsMemory ==
    /\ (pc = "returned" /\ saves = <<"raised">>) =>
           /\ failed = [call |-> calls, doc |-> state]
           /\ \A i \in 1..Len(new_videos) :
                  (\A j \in (i + 1)..Len(new_videos) :
                       new_videos[j].channel_id # new_videos[i].channel_id)
                      => get_last_seen(state, new_videos[i].channel_id) = new_videos[i].video_id
    /\ failed.call > 0 => MissingSince(failed.doc, state, failed.call) = {}
    /\ (failed.call > 0 /\ pc = "returned" /\ saves = <<"returned">>) =>
           /\ store.kind = "doc"
           /\ store.text = json_dumps(state)
           /\ MissingSince(failed.doc, storage_load(store), failed.call) = {}

\* the save() of the first call raised after a new video of channel A; the
\* second call resolved the handle and its save() returned: the store holds
\* the first call's last_seen entry and the second call's resolved entry
C28_Witness ==
    /\ failed.call = 1
    /\ calls = 2
    /\ pc = "returned"
    /\ saves = <<"returned">>
    /\ get_last_seen(failed.doc, ChA) = V1
    /\ get_resolved(failed.doc, RefAt) = None
    /\ get_last_seen(storage_load(store), ChA) = V1
    /\ get_resolved(storage_load(store), RefAt) = ChB
    /\ lastFetch[ChA].call = 1

\* C29: on an engine instance whose document was loaded empty, no step of
\* any batch removes an entry of the resolved map or changes the channel ID
\* of an entry, and no step removes a key of last_seen: both maps only get
\* new keys (and last_seen new values).
C29_MapsOnlyGrow ==
    [][/\ \A u \in DOMAIN state.resolved :
              u \in DOMAIN state'.resolved /\ state'.resolved[u] = state.resolved[u]
       /\ DOMAIN state.last_seen \subseteq DOMAIN state'.last_seen
       /\ DOMAIN state' = DOMAIN state]_vars

\* the second call adds an entry for the /c/ reference of another channel,
\* beside the handle's entry of the first call and the first channel's last_seen
C29_Witness ==
    /\ calls = 2
    /\ last.channel_url = RefPath
    /\ last.outcome = "video"
    /\ before.resolved = Put(EmptyMap, RefAt, ChA)
    /\ state.resolved = Put(Put(EmptyMap, RefAt, ChA), RefPath, ChB)
    /\ DOMAIN before.last_seen = {ChA}
    /\ DOMAIN state.last_seen = {ChA, ChB}

\* What the document holds under "last_seen" (nothing when it has no such member).
LastSeenOf(st) == IF "last_seen" \in DOMAIN st THEN st.last_seen ELSE EmptyMap

\* The iteration left the document as it was but for the entry the resolver
\* wrote for the iteration's reference, which the map did not have.
OnlyResolvedWritten ==
    \/ state = before
    \/ /\ ~Truthy(get_resolved(before, last.channel_url))
       /\ Truthy(last.channel_id)
       /\ state = set_resolved(before, last.channel_url, last.channel_id)

\* C30: an iteration that fails (unresolved, no video found, or an Exception
\* raised in it) leaves last_seen as it was for every channel and appends one
\* error entry for its reference; the entry of an unresolved reference leaves
\* the whole document unchanged; when the fetch gave no video the entry says
\* "No videos found" and the only change of the document is the resolved
\* entry the resolver wrote; an Exception of an accessor is recorded with its
\* text, after at most that same change.
C30_FailureLeavesLastSeen ==
    last.outcome \in {"unresolved", "no_video", "exception"} =>
        /\ LastSeenOf(state) = LastSeenOf(before)
        /\ ("last_seen" \in DOMAIN state) <=> ("last_seen" \in DOMAIN before)
        /\ LastError.channel = last.channel_url
        /\ Len(results) + Len(errors) = idx
        /\ OnlyResolvedWritten
        /\ last.outcome = "unresolved" =>
               /\ state = before
               /\ LastError.error = "Could not resolve channel ID"
        /\ last.outcome = "no_video" =>
               /\ LastError.error = "No videos found"
               /\ Truthy(last.channel_id)
               /\ get_resolved(state, last.channel_url) = last.channel_id
        /\ last.outcome = "exception" => LastError.error = NoGetText

\* the stored last_seen is a JSON array: the handle is resolved by the
\* search and cached, the fetch returns a video, get_last_seen raises; the
\* error entry has the exception's text and last_seen is untouched
C30_Witness ==
    /\ last.outcome = "exception"
    /\ last.channel_url = RefAt
    /\ last.lookup
    /\ LastSeenOf(state) = ListValue
    /\ LastSeenOf(before) = ListValue
    /\ get_resolved(before, RefAt) = None
    /\ get_resolved(state, RefAt) = last.channel_id
    /\ LastError = [channel |-> RefAt, error |-> NoGetText]
    /\ results = <<>>

\* video_info of a result: the result without is_new and channel_url
video_info_of(result) == [channel_id |-> result.channel_id, video_id |-> result.video_id]

\* The video_info of the results with is_new = true, in the order of the results.
RECURSIVE NewAmong(_)
NewAmong(videos) ==
    IF videos = <<>> THEN <<>>
    ELSE IF Head(videos).is_new
         THEN <<video_info_of(Head(videos))>> \o NewAmong(Tail(videos))
         ELSE NewAmong(Tail(videos))

\* C31: in every SUCCESS or PARTIAL response of process(), new_videos is the
\* sub-sequence of videos whose is_new flag is true: the same videos in the
\* same order, one entry per result with is_new = true and none for a result
\* with is_new = false. The two lists of the loop are in that relation after
\* every iteration.
C31_NewVideosAreTheNewResults ==
    /\ new_videos = NewAmong(results)
    /\ response.status \in {"success", "partial"} =>
           /\ response.data[1].new_videos = NewAmong(response.data[1].videos)
           /\ Len(response.data[1].new_videos) =
                  Cardinality({i \in 1..Len(response.data[1].videos) :
                                  response.data[1].videos[i].is_new})

\* a PARTIAL response with a new video, a video that is not new, and one
\* entry of new_videos
C31_Witness ==
    /\ pc = "returned"
    /\ response.status = "partial"
    /\ Len(response.data[1].videos) = 2
    /\ response.data[1].videos[1].is_new
    /\ ~response.data[1].videos[2].is_new
    /\ response.data[1].new_videos = <<video_info_of(response.data[1].videos[1])>>

\* The tool whose call made process() call number n.
CallerOf(n) == (CHOOSE e \in {toolLog[i] : i \in 1..Len(toolLog)} : e.call = n).name

\* The tool calls before number i that put an instance into the slot.
ConstructedBefore(i) == {j \in 1..(i - 1) : toolLog[j].agent = "constructed"}

\* C32: the channel tools of one server process share one lazily created
\* engine instance. At most one instance is ever constructed, and it stays in
\* the slot; a call that reaches get_youtube_channel_agent() finds that
\* instance when an earlier call constructed it, constructs it when none did
\* and YOUTUBE_API_KEY is set, and fails leaving the slot empty when none did
\* and the key is missing. A video one of the two tools fetched for a channel
\* is not new for the other tool when its call fetches the same video for the
\* channel next, and the tool that returns it reports is_new = false.
C32_OneSharedEngine ==
    /\ engines <= 1
    /\ agents = engines
    /\ calls > 0 => agents # NoAgent
    /\ \A i \in 1..Len(toolLog) :
           toolLog[i].agent # "not_asked" =>
               toolLog[i].agent = IF ConstructedBefore(i) # {} THEN "found"
                                  ELSE IF toolLog[i].key = "set" THEN "constructed"
                                  ELSE "no_key"
    /\ (toolLog # <<>> /\ LastTool.agent = "no_key") =>
           /\ agents = NoAgent
           /\ ToolReturn = [error |-> NoKeyText]
    /\ (/\ pc \in {"loop", "returned"}
        /\ last.outcome = "video"
        /\ last.prev_fetch.call \in 1..(calls - 1)
        /\ CallerOf(last.prev_fetch.call) # CallerOf(calls)
        /\ last.prev_fetch.video_id = last.video_id)
           => /\ ~last.is_new
              /\ ~LastResult.is_new
              /\ (pc = "returned" /\ "all_videos" \in DOMAIN ToolReturn) =>
                     ~ToolReturn.all_videos[Len(results)].is_new
              /\ (pc = "returned" /\ "is_new" \in DOMAIN ToolReturn) =>
                     ~ToolReturn.is_new

\* a call without the key fails, the next call constructs the engine and
\* youtube_channel_latest returns a new video, then youtube_channels_monitor
\* finds the instance and returns the same video with is_new = false
C32_Witness ==
    /\ Len(toolLog) = 3
    /\ toolLog[1].agent = "no_key"
    /\ toolLog[2] = ToolCall(LatestTool, RefId, "set", "constructed", 1)
    /\ toolLog[3] = ToolCall(MonitorTool, <<RefId>>, "not_read", "found", 2)
    /\ agents = 1
    /\ pc = "returned"
    /\ last.prev_fetch.call = 1
    /\ last.prev_fetch.video_id = last.video_id
    /\ last.last_seen = last.video_id
    /\ last.video_id = V2
    /\ "all_videos" \in DOMAIN ToolReturn
    /\ Len(ToolReturn.all_videos) = 1
    /\ ~ToolReturn.all_videos[1].is_new
    /\ ToolReturn.new_videos = <<>>

\* The document is a JSON object with a resolved map and a last_seen map.
HasDocumentShape(doc) ==
    /\ IsDictDoc(doc)
    /\ "resolved" \in DOMAIN doc
    /\ "last_seen" \in DOMAIN doc
    /\ IsDict(doc.resolved)
    /\ IsDict(doc.last_seen)

\* C33: whatever the store held at construction (nothing, or parseable JSON
\* of any shape), the in-memory document of the engine and every document it
\* has saved is a JSON object with a resolved map and a last_seen map, and no
\* accessor of the state manager raises.
C33_DocumentShape ==
    /\ HasDocumentShape(state)
    /\ (pc = "returned" /\ saves = <<"returned">>) => HasDocumentShape(storage_load(store))
    /\ ~accessor_raises(state, "resolved")
    /\ ~accessor_raises(state, "last_seen")
    /\ last.outcome # "exception"

====
